---- MODULE Spec2Model ----
(***************************************************************************)
(* Processor core of cupertino-nvr: the configuration object, the MQTT     *)
(* control plane with its command registry, the command handlers (the ones *)
(* StreamProcessor registers and the extracted CommandHandlers class on    *)
(* top of InferencePipelineManager), the detection sink and the            *)
(* restart-aware join loop.                                                *)
(*                                                                         *)
(* The specifications share the variables:                                 *)
(*   Spec         the control-plane thread: one action per delivered       *)
(*                message, the whole handler included;                     *)
(*   SpecStreams  add_stream / remove_stream / restart commands from every *)
(*                accepted config, interleaved with whole sink calls;      *)
(*   SpecSink     the engine callback thread running the sink one          *)
(*                statement at a time against pause / resume / restart;    *)
(*   SpecJoin     the main thread's join loop against _handle_restart run  *)
(*                one shared-variable access at a time (SpecJoinFair: with *)
(*                both threads scheduled fairly);                          *)
(*   SpecConfig   add_stream / remove_stream called on the config itself;  *)
(*   SpecQueue    messages waiting for the one control-plane thread;       *)
(*   SpecStart    StreamProcessor.start() against the control plane's      *)
(*                connection and the first commands;                       *)
(*   SpecTwo      two instances on one command topic;                      *)
(*   SpecStop     stop, signals and restarts against the join loop and the *)
(*                shutdown cleanup (SpecStopFair: scheduled fairly);       *)
(*   SpecBatch    one sink call on a batch with failing pairs;             *)
(*   SpecMetrics  one MetricsReporter and its worker (SpecMetricsFair:     *)
(*                the worker scheduled fairly);                            *)
(*   SpecCache    DetectionCache used from one thread, with a clock;       *)
(*   SpecCacheThreads  DetectionCache shared by writers and readers;       *)
(*   SpecTopic    topic_for_source and parse_source_id_from_topic on text; *)
(*   SpecReporter the metrics probe and the reporter across restarts.      *)
(***************************************************************************)
EXTENDS Integers, Sequences, FiniteSets, TLC

\* ------------------------------------------------------------- bounds
\* Source ids that commands and initial configs draw from: 0..MaxSourceId.
MaxSourceId == 1
\* Longest stream_uris / source_id_mapping a config is constructed with.
MaxInitStreams == 2
\* Longest batch an engine hands to the sink in one call.
MaxBatch == 2
\* Engine objects are named 0..MaxEngineId; a name is reused once no
\* reference to the old object is left.
MaxEngineId == 1
\* Restart commands handled while the main thread is in join().
MaxRestarts == 2
\* Messages that arrive on the command topic in one execution of SpecQueue.
MaxInbox == 3

\* ------------------------------------------------------------- values
\* Python's Optional[T]: None is the empty set, a value v is {v}.
None == {}
Some(x) == {x}
The(o) == CHOOSE x \in o : TRUE

Last(s) == s[Len(s)]
RemoveAt(s, i) == [k \in 1..(Len(s) - 1) |-> IF k < i THEN s[k] ELSE s[k + 1]]
SeqsUpTo(S, n) == UNION {[1..k -> S] : k \in 0..n}
Contains(s, x) == \E k \in 1..Len(s) : s[k] = x
IndexOf(s, x) == CHOOSE k \in 1..Len(s) : s[k] = x /\ \A j \in 1..(k - 1) : s[j] # x

SourceIds == 0..MaxSourceId
InstanceIds == {"P", "Q"}
EngineIds == 0..MaxEngineId

\* ------------------------------------------------------------- config
\* stream_server of the config (its default is rtsp://localhost:8554).
StreamServer == "rtsp://go2rtc:8554"

\* A URI is kept as the text before its last segment and that segment.
\* An empty server stands for a text urlparse finds no scheme in.
Uri(server, id) == [server |-> server, id |-> id]

_is_valid_uri(uri) == uri.server # ""

build_stream_uri(c, source_id) == Uri(c.stream_server, source_id)

\* StreamProcessorConfig._validate: TRUE iff no ConfigValidationError.
\* confidence_threshold is kept in hundredths.
_validate(c) ==
    /\ Len(c.stream_uris) > 0
    /\ \A k \in 1..Len(c.stream_uris) : _is_valid_uri(c.stream_uris[k])
    /\ 1 <= c.mqtt_port /\ c.mqtt_port <= 65535
    /\ (c.max_fps = None \/ The(c.max_fps) > 0)
    /\ c.metrics_reporting_interval >= 0
    /\ 0 <= c.confidence_threshold /\ c.confidence_threshold <= 100

UriPool == {Uri(StreamServer, i) : i \in SourceIds} \cup {Uri("", 0)}

\* What a caller may hand to the constructor.
ConfigCandidates ==
    [ instance_id : {"P"},
      model_id : {"m1"},
      max_fps : {None, Some(0), Some(1)},
      stream_uris : SeqsUpTo(UriPool, MaxInitStreams),
      source_id_mapping : {None} \cup {Some(m) : m \in SeqsUpTo(SourceIds, MaxInitStreams)},
      stream_server : {StreamServer},
      mqtt_port : {0, 1883},
      mqtt_qos : {0},
      metrics_reporting_interval : {-1, 10},
      confidence_threshold : {50, 150} ]

\* __post_init__: the constructor returns only what _validate accepts.
AcceptedConfigs == {c \in ConfigCandidates : _validate(c)}

\* ------------------------------------------------------------- world
\* The handlers are sequential code; they are written as operators from
\* the objects they touch (w) to those objects afterwards plus the
\* exception that left the handler, if any.
\*   w.cfg      StreamProcessorConfig
\*   w.sink     MQTTDetectionSink: the gate, its source_id_mapping list and
\*              whether that list is the very object config.source_id_mapping
\*              refers to (in-place mutation shows through, rebinding not)
\*   w.cp       MQTTControlPlane: instance_id and what it published for the
\*              message being handled
\*   w.proc     StreamProcessor fields
\*   w.pm       InferencePipelineManager fields
\*   w.engines  the InferencePipeline objects, by name
\*   w.held     the engine the main thread keeps in current_pipeline
\*   w.calls    the calls made into the engine library while the message
\*              being handled is handled, in order

NoExc == [type |-> "none", msg |-> ""]
Exc(type, msg) == [type |-> type, msg |-> msg]
Ok(w) == [w |-> w, exc |-> NoExc]
Raise(w, type, msg) == [w |-> w, exc |-> Exc(type, msg)]
Raised(r) == r.exc.type # "none"

\* ConfigValidationError and CommandValidationError both derive from
\* ValueError.
IsValueError(e) == e.type \in {"ValueError", "ConfigValidationError", "CommandValidationError"}

\* StreamProcessorConfig.add_stream. source_id is an int here: both callers
\* convert with int() first.
add_stream(w, source_id) ==
    LET c == w.cfg
        wasNone == c.source_id_mapping = None
        \* "if self.source_id_mapping is None: self.source_id_mapping = []"
        m0 == IF wasNone THEN <<>> ELSE The(c.source_id_mapping)
        alias0 == IF wasNone THEN FALSE ELSE w.sink.aliased
        w0 == [w EXCEPT !.cfg.source_id_mapping = Some(m0), !.sink.aliased = alias0]
    IN  IF Contains(m0, source_id)
        THEN Raise(w0, "ConfigValidationError", "already exists")
        ELSE LET m1 == Append(m0, source_id)
             IN Ok([w0 EXCEPT
                     !.cfg.stream_uris = Append(c.stream_uris, build_stream_uri(c, source_id)),
                     !.cfg.source_id_mapping = Some(m1),
                     !.sink.source_id_mapping =
                         IF alias0 THEN m1 ELSE w.sink.source_id_mapping])

\* remove_stream without the refusal to remove the last stream.
remove_stream_allows_empty(w, source_id) ==
    LET c == w.cfg IN
    IF c.source_id_mapping = None
    THEN Raise(w, "ConfigValidationError", "source_id_mapping is None")
    ELSE LET m0 == The(c.source_id_mapping) IN
         IF ~Contains(m0, source_id) \/ IndexOf(m0, source_id) > Len(c.stream_uris)
         THEN Raise(w, "ConfigValidationError", "not found")
         ELSE Ok([w EXCEPT
                   !.cfg.stream_uris = RemoveAt(c.stream_uris, IndexOf(m0, source_id)),
                   !.cfg.source_id_mapping = Some(RemoveAt(m0, IndexOf(m0, source_id)))])

\* StreamProcessorConfig.remove_stream.
remove_stream(w, source_id) ==
    LET c == w.cfg IN
    IF c.source_id_mapping = None
    THEN Raise(w, "ConfigValidationError", "source_id_mapping is None")
    ELSE LET m0 == The(c.source_id_mapping) IN
         IF ~Contains(m0, source_id)
         THEN Raise(w, "ConfigValidationError", "not found")
         ELSE IF Len(c.stream_uris) = 1
         THEN Raise(w, "ConfigValidationError", "Cannot remove last stream")
         ELSE LET idx == IndexOf(m0, source_id) IN
              \* list.pop(idx) raises IndexError past the end of stream_uris
              IF idx > Len(c.stream_uris)
              THEN Raise(w, "IndexError", "pop index out of range")
              ELSE LET m1 == RemoveAt(m0, idx)
                   IN Ok([w EXCEPT
                           !.cfg.stream_uris = RemoveAt(c.stream_uris, idx),
                           !.cfg.source_id_mapping = Some(m1),
                           !.sink.source_id_mapping =
                               IF w.sink.aliased THEN m1 ELSE w.sink.source_id_mapping])

\* ------------------------------------------------------------- control plane: publishing
\* A publish_status that leaves the instance id out of the topic: every
\* instance publishes on {status_topic_prefix}.
publish_status_shared_topic(w, status, renamed_from) ==
    [w EXCEPT !.cp.statuses = Append(@,
        [ topic |-> "", instance_id |-> w.cp.instance_id,
          status |-> status, renamed_from |-> renamed_from,
          qos |-> 1, retain |-> TRUE ])]

\* MQTTControlPlane.publish_status: retained, QoS 1, on
\* {status_topic_prefix}/{instance_id}; the topic is kept as the instance id
\* it ends with.
publish_status(w, status, renamed_from) ==
    [w EXCEPT !.cp.statuses = Append(@,
        [ topic |-> w.cp.instance_id, instance_id |-> w.cp.instance_id,
          status |-> status, renamed_from |-> renamed_from,
          qos |-> 1, retain |-> TRUE ])]

\* MQTTControlPlane._publish_ack: not retained, QoS 1, on
\* {status_topic_prefix}/{instance_id}/ack, instance_id read when called.
\* The payload's "command" echoes the message being handled, the only one
\* the log holds acks of, and is left out.
_publish_ack(w, command, ack_status, message) ==
    [w EXCEPT !.cp.acks = Append(@,
        [ topic |-> w.cp.instance_id, instance_id |-> w.cp.instance_id,
          ack_status |-> ack_status, message |-> message,
          qos |-> 1, retain |-> FALSE ])]

\* A filter that takes any list holding "*" for a broadcast.
should_process_any_star(instance_id, target_instances) ==
    IF target_instances = None \/ The(target_instances) = <<>>
       \/ Contains(The(target_instances), "*")
    THEN TRUE
    ELSE Contains(The(target_instances), instance_id)

\* MQTTControlPlane._should_process_command. target_instances is None
\* (JSON null), or a list of strings.
_should_process_command(instance_id, target_instances) ==
    IF target_instances = None \/ The(target_instances) = <<>> \/ The(target_instances) = <<"*">>
    THEN TRUE
    ELSE Contains(The(target_instances), instance_id)

\* ------------------------------------------------------------- engine objects
\* An InferencePipeline object: "free" is a name no object carries.
FreeEngine == [state |-> "free", nstreams |-> 0, model_id |-> ""]

\* References to engine objects that keep them alive.
LiveEngines(w) == w.proc.pipeline \cup w.pm.pipeline \cup w.held

NewEngineId(w) == CHOOSE id \in EngineIds \ LiveEngines(w) :
                      \A j \in EngineIds \ LiveEngines(w) : id <= j

\* InferencePipeline.init(video_reference=config.stream_uris, model_id=...)
EngineInit(w) == [state |-> "created", nstreams |-> Len(w.cfg.stream_uris),
                  model_id |-> w.cfg.model_id]

\* A call into the engine library, noted in w.calls with the sink gate and
\* the restart flag as they are when the call is made.
Called(w, op) ==
    [w EXCEPT !.calls = Append(@, [op |-> op, gate |-> w.sink.running,
                                   restarting |-> w.proc.is_restarting])]

\* pipeline.terminate(), pause_stream(), resume_stream(), start()
EngineTerminate(w, id) == [Called(w, "terminate") EXCEPT !.engines[id].state = "terminated"]
EnginePause(w, id) ==
    [Called(w, "pause_stream") EXCEPT !.engines[id].state = IF @ = "started" THEN "paused" ELSE @]
EngineResume(w, id) ==
    [Called(w, "resume_stream") EXCEPT !.engines[id].state = IF @ = "paused" THEN "started" ELSE @]
EngineStart(w, id) == [Called(w, "start") EXCEPT !.engines[id].state = "started"]

\* What the engine library does when a handler recreates the engine:
\* "ok", or the old engine's terminate raises ("terminate"), or
\* InferencePipeline.init raises ("create"), or start raises ("start").
EngineOutcomes == {"ok", "terminate", "create", "start"}

\* MQTTDetectionSink.pause / resume: clear / set the Event.
sink_pause(w) == [w EXCEPT !.sink.running = FALSE]
sink_resume(w) == [w EXCEPT !.sink.running = TRUE]

\* ------------------------------------------------------------- command parameters
\* params is a JSON object with at most one key; its value is a number or a
\* string.
Value(isnum, num, str) == [isnum |-> isnum, num |-> num, str |-> str]
Num(n) == Value(TRUE, n, "")
Str(s) == Value(FALSE, 0, s)
Params(keys, v) == [keys |-> keys, v |-> v]
NoParams == Params({}, Str(""))

\* dict.get(key): None when the key is absent.
Get(params, key) == IF key \in params.keys THEN Some(params.v) ELSE None
\* Python truthiness of a number or a string, and of the dict itself.
Truthy(v) == IF v.isnum THEN v.num # 0 ELSE v.str # ""
ParamsTruthy(params) == params.keys # {}
\* float(v) / int(v) succeed on numbers; no string of the model is numeric.
Numeric(v) == v.isnum
\* str.strip(): the one padded string of the model is the blank one.
Strip(s) == IF s = " " THEN "" ELSE s

\* ------------------------------------------------------------- StreamProcessor handlers
\* StreamProcessor._handle_pause: never raises (it logs what it catches).
_handle_pause(w) ==
    IF w.proc.pipeline # None /\ ~w.proc.is_paused
    THEN LET w1 == sink_pause(w)
             w2 == EnginePause(w1, The(w.proc.pipeline))
             w3 == [w2 EXCEPT !.proc.is_paused = TRUE]
         IN Ok(publish_status(w3, "paused", None))
    ELSE Ok(w)

\* StreamProcessor._handle_resume.
_handle_resume(w) ==
    IF w.proc.pipeline # None /\ w.proc.is_paused
    THEN LET w1 == EngineResume(w, The(w.proc.pipeline))
             w2 == sink_resume(w1)
             w3 == [w2 EXCEPT !.proc.is_paused = FALSE]
         IN Ok(publish_status(w3, "running", None))
    ELSE Ok(w)

\* StreamProcessor.terminate: the global STOP, then the engine.
terminate(w) ==
    LET w1 == [w EXCEPT !.proc.stop = TRUE] IN
    IF w1.proc.pipeline # None
    THEN [EngineTerminate(w1, The(w1.proc.pipeline)) EXCEPT !.proc.is_running = FALSE]
    ELSE w1

\* StreamProcessor._handle_stop.
_handle_stop(w) ==
    IF w.proc.pipeline # None
    THEN Ok(publish_status(terminate(w), "stopped", None))
    ELSE Ok(w)

\* StreamProcessor._get_current_status.
_get_current_status(w) ==
    IF ~w.proc.is_running THEN "stopped"
    ELSE IF w.proc.is_paused THEN "paused"
    ELSE IF w.proc.is_restarting THEN "restarting"
    ELSE "running"

\* StreamProcessor._handle_status.
_handle_status(w) ==
    LET status == IF w.proc.is_running
                  THEN (IF w.proc.is_paused THEN "paused" ELSE "running")
                  ELSE "stopped"
    IN Ok(publish_status(w, status, None))

\* StreamProcessor._handle_ping.
_handle_ping(w) == Ok(publish_status(w, _get_current_status(w), None))

\* StreamProcessor._handle_restart, one shared-variable access at a time.
\* "restarting" is published, then the flag is set.
restart_begin(w) ==
    [publish_status(w, "restarting", None) EXCEPT !.proc.is_restarting = TRUE]
\* if self.pipeline: self.pipeline.terminate()
restart_terminate(w, eng) ==
    IF w.proc.pipeline = None
    THEN Ok(w)
    ELSE IF eng = "terminate"
    THEN Raise(Called(w, "terminate"), "RuntimeError", "terminate failed")
    ELSE Ok(EngineTerminate(w, The(w.proc.pipeline)))
\* ... self.pipeline = None
restart_unref(w) == [w EXCEPT !.proc.pipeline = None]
\* self.is_running = False
restart_not_running(w) == [w EXCEPT !.proc.is_running = FALSE]
\* self.pipeline = InferencePipeline.init(...)
restart_create(w, eng) ==
    IF eng = "create"
    THEN Raise(Called(w, "init"), "RuntimeError", "init failed")
    ELSE LET id == NewEngineId(w)
         IN Ok([Called(w, "init") EXCEPT
                  !.proc.pipeline = Some(id), !.engines[id] = EngineInit(w)])
\* self.pipeline.start(...); _pipeline_started, is_running, is_paused
restart_start(w, eng) ==
    IF eng = "start"
    THEN Raise(Called(w, "start"), "RuntimeError", "start failed")
    ELSE Ok([EngineStart(w, The(w.proc.pipeline)) EXCEPT
                !.proc.pipeline_started = TRUE,
                !.proc.is_running = TRUE,
                !.proc.is_paused = FALSE])
restart_publish_running(w) == publish_status(w, "running", None)
\* except: is_running = False, "error" is published, the exception re-raised
restart_failed(w) ==
    publish_status([w EXCEPT !.proc.is_running = FALSE], "error", None)
\* finally: self._is_restarting = False
restart_finally(w) == [w EXCEPT !.proc.is_restarting = FALSE]

\* The end of the try: "running" is published, or the except runs; the
\* finally runs either way. r is what the try's last call returned.
restart_end(r) ==
    IF Raised(r)
    THEN [w |-> restart_finally(restart_failed(r.w)), exc |-> r.exc]
    ELSE Ok(restart_finally(restart_publish_running(r.w)))
\* start() is reached only when init returned, init only when terminate
\* did.
restart_start_after(c, eng) == IF Raised(c) THEN c ELSE restart_start(c.w, eng)
restart_create_after(t, eng) ==
    IF Raised(t) THEN t ELSE restart_create(restart_not_running(restart_unref(t.w)), eng)

\* The whole of _handle_restart.
_handle_restart(w, eng) ==
    IF w.proc.is_restarting
    THEN Ok(w)
    ELSE restart_end(restart_start_after(
             restart_create_after(restart_terminate(restart_begin(w), eng), eng), eng))

\* The except of _handle_change_model: the old model_id is put back,
\* "error" is published and the exception re-raised. r is what the try did.
ModelRollback(r, old_model_id) ==
    IF Raised(r)
    THEN [w |-> publish_status([r.w EXCEPT !.cfg.model_id = old_model_id], "error", None),
          exc |-> r.exc]
    ELSE r

\* StreamProcessor._handle_change_model.
_handle_change_model(w, params, eng) ==
    LET new_model_id == Get(params, "model_id") IN
    IF new_model_id = None \/ ~Truthy(The(new_model_id))
    THEN Raise(w, "ValueError", "Missing required parameter: model_id")
    ELSE LET old_model_id == w.cfg.model_id
             w1 == publish_status(w, "reconfiguring", None)
             w2 == [w1 EXCEPT !.cfg.model_id = The(new_model_id).str]
         IN  ModelRollback(_handle_restart(w2, eng), old_model_id)

\* The except of _handle_set_fps.
FpsRollback(r, old_fps) ==
    IF Raised(r)
    THEN [w |-> publish_status([r.w EXCEPT !.cfg.max_fps = old_fps], "error", None),
          exc |-> r.exc]
    ELSE r

\* StreamProcessor._handle_set_fps.
_handle_set_fps(w, params, eng) ==
    LET new_fps == Get(params, "max_fps") IN
    IF new_fps = None
    THEN Raise(w, "ValueError", "Missing required parameter: max_fps")
    ELSE IF ~Numeric(The(new_fps)) \/ The(new_fps).num <= 0
    THEN Raise(w, "ValueError", "Invalid max_fps value")
    ELSE LET old_fps == w.cfg.max_fps
             w1 == publish_status(w, "reconfiguring", None)
             w2 == [w1 EXCEPT !.cfg.max_fps = Some(The(new_fps).num)]
         IN  FpsRollback(_handle_restart(w2, eng), old_fps)

\* The rollback both stream handlers share: the two lists are rebound to
\* the copies taken before the change; the copy of the mapping is [] when
\* the mapping was None or empty.
StreamBackup(w) ==
    [ stream_uris |-> w.cfg.stream_uris,
      source_id_mapping |-> IF w.cfg.source_id_mapping = None
                            THEN <<>> ELSE The(w.cfg.source_id_mapping) ]
StreamRollback(w, backup) ==
    [w EXCEPT !.cfg.stream_uris = backup.stream_uris,
              !.cfg.source_id_mapping = Some(backup.source_id_mapping),
              !.sink.aliased = FALSE]
\* The except of the stream handlers: rollback, "error", re-raise.
StreamsRollback(r, backup) ==
    IF Raised(r)
    THEN [w |-> publish_status(StreamRollback(r.w, backup), "error", None), exc |-> r.exc]
    ELSE r
\* The restart follows the config change inside the same try.
restart_after(a, eng) == IF Raised(a) THEN a ELSE _handle_restart(a.w, eng)

\* StreamProcessor._handle_add_stream.
_handle_add_stream(w, params, eng) ==
    LET source_id == Get(params, "source_id") IN
    IF source_id = None
    THEN Raise(w, "ValueError", "Missing required parameter: source_id")
    ELSE IF ~Numeric(The(source_id))
    THEN Raise(w, "ValueError", "Invalid source_id value")
    ELSE LET w1 == publish_status(w, "reconfiguring", None)
         IN  StreamsRollback(restart_after(add_stream(w1, The(source_id).num), eng),
                             StreamBackup(w1))

\* StreamProcessor._handle_remove_stream.
_handle_remove_stream(w, params, eng) ==
    LET source_id == Get(params, "source_id") IN
    IF source_id = None
    THEN Raise(w, "ValueError", "Missing required parameter: source_id")
    ELSE IF ~Numeric(The(source_id))
    THEN Raise(w, "ValueError", "Invalid source_id value")
    ELSE LET w1 == publish_status(w, "reconfiguring", None)
         IN  StreamsRollback(restart_after(remove_stream(w1, The(source_id).num), eng),
                             StreamBackup(w1))

\* A rename that leaves the control plane's instance_id behind.
rename_config_only(w, params) ==
    LET new_instance_id == Get(params, "new_instance_id") IN
    IF new_instance_id = None \/ ~Truthy(The(new_instance_id))
    THEN Raise(w, "ValueError", "Missing required parameter: new_instance_id")
    ELSE LET old_instance_id == w.cfg.instance_id
             w1 == [w EXCEPT !.cfg.instance_id = The(new_instance_id).str]
             r == Ok(publish_status(w1, "running", Some(old_instance_id)))
         IN r

\* StreamProcessor._handle_rename_instance.
_handle_rename_instance(w, params) ==
    LET new_instance_id == Get(params, "new_instance_id") IN
    IF new_instance_id = None \/ ~Truthy(The(new_instance_id))
    THEN Raise(w, "ValueError", "Missing required parameter: new_instance_id")
    ELSE LET old_instance_id == w.cfg.instance_id
             w1 == [w EXCEPT !.cfg.instance_id = The(new_instance_id).str]
             w2 == [w1 EXCEPT !.cp.instance_id = The(new_instance_id).str]
         IN Ok(publish_status(w2, "running", Some(old_instance_id)))

\* ------------------------------------------------------------- InferencePipelineManager
\* pause_pipeline asking the engine first and clearing the gate after.
pause_pipeline_engine_first(w) ==
    IF w.pm.pipeline = None \/ w.pm.is_paused
    THEN w
    ELSE [sink_pause(EnginePause(w, The(w.pm.pipeline))) EXCEPT !.pm.is_paused = TRUE]

\* pause_pipeline: sink first, then the stream.
pause_pipeline(w) ==
    IF w.pm.pipeline = None \/ w.pm.is_paused
    THEN w
    ELSE [EnginePause(sink_pause(w), The(w.pm.pipeline)) EXCEPT !.pm.is_paused = TRUE]

\* resume_pipeline: the stream first, then the sink.
resume_pipeline(w) ==
    IF w.pm.pipeline = None \/ ~w.pm.is_paused
    THEN w
    ELSE [sink_resume(EngineResume(w, The(w.pm.pipeline))) EXCEPT !.pm.is_paused = FALSE]

\* terminate_pipeline.
terminate_pipeline(w) ==
    IF w.pm.pipeline # None
    THEN [EngineTerminate(w, The(w.pm.pipeline)) EXCEPT
            !.pm.pipeline = None, !.pm.pipeline_started = FALSE, !.pm.is_paused = FALSE]
    ELSE w

\* create_pipeline.
create_pipeline(w, eng) ==
    IF eng = "create"
    THEN Raise(Called(w, "init"), "RuntimeError", "init failed")
    ELSE LET id == NewEngineId(w)
         IN Ok([Called(w, "init") EXCEPT
                  !.pm.pipeline = Some(id), !.engines[id] = EngineInit(w)])

\* start_pipeline.
start_pipeline(w, eng) ==
    IF w.pm.pipeline = None
    THEN Raise(w, "RuntimeError", "Pipeline not created")
    ELSE IF eng = "start"
    THEN Raise(Called(w, "start"), "RuntimeError", "start failed")
    ELSE Ok([EngineStart(w, The(w.pm.pipeline)) EXCEPT !.pm.pipeline_started = TRUE])

\* restart_pipeline(new_config=None).
start_after(c, eng) == IF Raised(c) THEN c ELSE start_pipeline(c.w, eng)
unpause_after(s) == IF Raised(s) THEN s ELSE Ok([s.w EXCEPT !.pm.is_paused = FALSE])
\* Step 1: if self.pipeline: terminate(); pipeline = None; _pipeline_started
terminate_old(w, eng) ==
    IF w.pm.pipeline = None
    THEN Ok(w)
    ELSE IF eng = "terminate"
    THEN Raise(Called(w, "terminate"), "RuntimeError", "terminate failed")
    ELSE Ok([EngineTerminate(w, The(w.pm.pipeline)) EXCEPT
               !.pm.pipeline = None, !.pm.pipeline_started = FALSE])
create_after(t, eng) == IF Raised(t) THEN t ELSE create_pipeline(t.w, eng)
restart_pipeline(w, eng) ==
    unpause_after(start_after(create_after(terminate_old(w, eng), eng), eng))

\* restart_with_coordination(coordinator=processor): the flag is set before
\* and cleared in the finally.
coordination_finally(r) == [w |-> [r.w EXCEPT !.proc.is_restarting = FALSE], exc |-> r.exc]
\* The restart without the coordinator's flag.
restart_uncoordinated(w, eng) == restart_pipeline(w, eng)
restart_with_coordination(w, eng) ==
    coordination_finally(restart_pipeline([w EXCEPT !.proc.is_restarting = TRUE], eng))

\* ------------------------------------------------------------- CommandValidators
\* Each returns the validated value, or raises CommandValidationError.
validate_model_id(v) ==
    IF v.isnum THEN [ok |-> FALSE, str |-> "", msg |-> "Invalid model_id: must be string"]
    ELSE IF Strip(v.str) = "" THEN [ok |-> FALSE, str |-> "", msg |-> "Invalid model_id: must be non-empty string"]
    ELSE [ok |-> TRUE, str |-> Strip(v.str), msg |-> ""]

validate_fps(v) ==
    IF ~Numeric(v) THEN [ok |-> FALSE, num |-> 0, msg |-> "Invalid max_fps: must be numeric"]
    ELSE IF v.num <= 0 THEN [ok |-> FALSE, num |-> 0, msg |-> "Invalid max_fps: must be > 0"]
    ELSE [ok |-> TRUE, num |-> v.num, msg |-> ""]

validate_source_id(v) ==
    IF ~Numeric(v) THEN [ok |-> FALSE, num |-> 0, msg |-> "Invalid source_id: must be numeric"]
    ELSE IF v.num < 0 THEN [ok |-> FALSE, num |-> 0, msg |-> "Invalid source_id: cannot be negative"]
    ELSE [ok |-> TRUE, num |-> v.num, msg |-> ""]

\* ------------------------------------------------------------- CommandHandlers
handle_pause(w) == Ok(publish_status(pause_pipeline(w), "paused", None))
handle_resume(w) == Ok(publish_status(resume_pipeline(w), "running", None))
handle_stop(w) == Ok(publish_status(terminate_pipeline(w), "stopped", None))

\* handle_restart after the restart: "running", or "error" and re-raise.
restart_status(r) ==
    IF Raised(r)
    THEN [w |-> publish_status(r.w, "error", None), exc |-> r.exc]
    ELSE Ok(publish_status(r.w, "running", None))
handle_restart(w, eng) ==
    restart_status(restart_with_coordination(publish_status(w, "restarting", None), eng))

handle_status(w) == Ok(publish_status(w, _get_current_status(w), None))
handle_ping(w) == Ok(publish_status(w, _get_current_status(w), None))

\* _execute_config_change, once the validator has run: backup, publish,
\* set, restart; on failure restore, publish "error", re-raise.
ConfigRollback(r, attr, old_value) ==
    IF Raised(r)
    THEN [w |-> publish_status(IF attr = "model_id"
                               THEN [r.w EXCEPT !.cfg.model_id = The(old_value)]
                               ELSE [r.w EXCEPT !.cfg.max_fps = old_value],
                               "error", None),
          exc |-> r.exc]
    ELSE r
ConfigChange(w, attr, validated, eng) ==
    LET old_value == IF attr = "model_id" THEN Some(w.cfg.model_id) ELSE w.cfg.max_fps
        w1 == publish_status(w, "reconfiguring", None)
        w2 == IF attr = "model_id"
              THEN [w1 EXCEPT !.cfg.model_id = The(validated)]
              ELSE [w1 EXCEPT !.cfg.max_fps = validated]
    IN  ConfigRollback(restart_with_coordination(w2, eng), attr, old_value)

\* _execute_config_change as handle_change_model calls it.
handle_change_model(w, params, eng) ==
    LET param_value == Get(params, "model_id") IN
    IF param_value = None
    THEN Raise(w, "ValueError", "Missing required parameter: model_id")
    ELSE LET v == validate_model_id(The(param_value)) IN
         IF ~v.ok THEN Raise(w, "CommandValidationError", v.msg)
         ELSE ConfigChange(w, "model_id", Some(v.str), eng)

\* _execute_config_change as handle_set_fps calls it.
handle_set_fps(w, params, eng) ==
    LET param_value == Get(params, "max_fps") IN
    IF param_value = None
    THEN Raise(w, "ValueError", "Missing required parameter: max_fps")
    ELSE LET v == validate_fps(The(param_value)) IN
         IF ~v.ok THEN Raise(w, "CommandValidationError", v.msg)
         ELSE ConfigChange(w, "max_fps", Some(v.num), eng)

\* _execute_stream_change: publish, backup, operation, restart; on failure
\* rebind both lists to the backups, publish "error", re-raise.
coordinated_restart_after(a, eng) ==
    IF Raised(a) THEN a ELSE restart_with_coordination(a.w, eng)
_execute_stream_change(w, source_id, operation, eng) ==
    LET w1 == publish_status(w, "reconfiguring", None)
    IN  StreamsRollback(
            coordinated_restart_after(
                IF operation = "add_stream" THEN add_stream(w1, source_id)
                ELSE remove_stream(w1, source_id), eng),
            StreamBackup(w1))

handle_add_stream(w, params, eng) ==
    LET source_id == Get(params, "source_id") IN
    IF source_id = None
    THEN Raise(w, "ValueError", "Missing required parameter: source_id")
    ELSE LET v == validate_source_id(The(source_id)) IN
         IF ~v.ok THEN Raise(w, "CommandValidationError", v.msg)
         ELSE _execute_stream_change(w, v.num, "add_stream", eng)

handle_remove_stream(w, params, eng) ==
    LET source_id == Get(params, "source_id") IN
    IF source_id = None
    THEN Raise(w, "ValueError", "Missing required parameter: source_id")
    ELSE LET v == validate_source_id(The(source_id)) IN
         IF ~v.ok THEN Raise(w, "CommandValidationError", v.msg)
         ELSE _execute_stream_change(w, v.num, "remove_stream", eng)

\* A rename that reports "running" by resuming the pipeline.
rename_and_resume(w, params) ==
    LET new_instance_id == Get(params, "new_instance_id") IN
    IF new_instance_id = None \/ ~Truthy(The(new_instance_id))
    THEN Raise(w, "ValueError", "Missing required parameter: new_instance_id")
    ELSE LET old_instance_id == w.cfg.instance_id
             w1 == [w EXCEPT !.cfg.instance_id = The(new_instance_id).str]
             w2 == [w1 EXCEPT !.cp.instance_id = The(new_instance_id).str]
         IN Ok(publish_status(resume_pipeline(w2), "running", Some(old_instance_id)))

\* CommandHandlers.handle_rename_instance.
handle_rename_instance(w, params) ==
    LET new_instance_id == Get(params, "new_instance_id") IN
    IF new_instance_id = None \/ ~Truthy(The(new_instance_id))
    THEN Raise(w, "ValueError", "Missing required parameter: new_instance_id")
    ELSE LET old_instance_id == w.cfg.instance_id
             w1 == [w EXCEPT !.cfg.instance_id = The(new_instance_id).str]
             w2 == [w1 EXCEPT !.cp.instance_id = The(new_instance_id).str]
         IN Ok(publish_status(w2, "running", Some(old_instance_id)))

\* ------------------------------------------------------------- CommandRegistry
\* What _setup_control_commands registers.
Registered == { "pause", "resume", "stop", "status", "metrics", "restart",
                "change_model", "set_fps", "add_stream", "remove_stream",
                "ping", "rename_instance" }
\* The handlers whose signature has a parameter.
TakesParams == {"change_model", "set_fps", "add_stream", "remove_stream", "rename_instance"}
\* The handlers that recreate the engine.
RestartCommands == {"restart", "change_model", "set_fps", "add_stream", "remove_stream"}

\* The handler registered under a name: StreamProcessor's own method, or
\* the CommandHandlers method of the same name. _handle_metrics publishes on
\* the bus client's metrics topic only, which is not kept here.
Handler(w, command, params, eng) ==
    IF w.wiring = "processor"
    THEN CASE command = "pause" -> _handle_pause(w)
           [] command = "resume" -> _handle_resume(w)
           [] command = "stop" -> _handle_stop(w)
           [] command = "status" -> _handle_status(w)
           [] command = "metrics" -> Ok(w)
           [] command = "ping" -> _handle_ping(w)
           [] command = "restart" -> _handle_restart(w, eng)
           [] command = "change_model" -> _handle_change_model(w, params, eng)
           [] command = "set_fps" -> _handle_set_fps(w, params, eng)
           [] command = "add_stream" -> _handle_add_stream(w, params, eng)
           [] command = "remove_stream" -> _handle_remove_stream(w, params, eng)
           [] command = "rename_instance" -> _handle_rename_instance(w, params)
    ELSE CASE command = "pause" -> handle_pause(w)
           [] command = "resume" -> handle_resume(w)
           [] command = "stop" -> handle_stop(w)
           [] command = "status" -> handle_status(w)
           [] command = "metrics" -> Ok(w)
           [] command = "ping" -> handle_ping(w)
           [] command = "restart" -> handle_restart(w, eng)
           [] command = "change_model" -> handle_change_model(w, params, eng)
           [] command = "set_fps" -> handle_set_fps(w, params, eng)
           [] command = "add_stream" -> handle_add_stream(w, params, eng)
           [] command = "remove_stream" -> handle_remove_stream(w, params, eng)
           [] command = "rename_instance" -> handle_rename_instance(w, params)

\* execute treating a name that is not registered as a command that does
\* nothing.
execute_unknown_is_noop(w, command, params, eng) ==
    IF command \notin Registered
    THEN Ok(w)
    ELSE IF command \in TakesParams /\ ~ParamsTruthy(params)
    THEN Raise(w, "TypeError", "missing 1 required positional argument: 'params'")
    ELSE Handler(w, command, params, eng)

\* CommandRegistry.execute: handler(params) only when params is truthy and
\* the handler has a parameter, handler() otherwise; calling a one-parameter
\* handler with no argument is a TypeError.
execute(w, command, params, eng) ==
    IF command \notin Registered
    THEN Raise(w, "CommandNotAvailableError", "Command not available. Available: ...")
    ELSE IF command \in TakesParams /\ ~ParamsTruthy(params)
    THEN Raise(w, "TypeError", "missing 1 required positional argument: 'params'")
    ELSE Handler(w, command, params, eng)

\* str.lower() on the command name.
Lower(s) == IF s = "PAUSE" THEN "pause" ELSE s

\* ------------------------------------------------------------- MQTTControlPlane._on_message
\* A message on the command topic: whether its payload decodes as JSON,
\* "command", "params", and "target_instances" (None: the key is absent).
Message(json_ok, command, params, targets) ==
    [json_ok |-> json_ok, command |-> command, params |-> params, target_instances |-> targets]

\* The end of _on_message's inner try, r being what execute() did: the
\* "completed" ack, the two excepts that publish an "error" ack, or the
\* outer except that logs.
terminal_ack(r, command) ==
    IF ~Raised(r)
    THEN [w |-> _publish_ack(r.w, command, "completed", ""), outcome |-> "completed"]
    ELSE IF r.exc.type = "CommandNotAvailableError"
    THEN [w |-> _publish_ack(r.w, command, "error", r.exc.msg), outcome |-> "not_available"]
    ELSE IF IsValueError(r.exc)
    THEN [w |-> _publish_ack(r.w, command, "error", r.exc.msg), outcome |-> "value_error"]
    ELSE [w |-> r.w, outcome |-> "exception"]

\* Returns the objects afterwards and how the message ended:
\*   "undecodable"  json.loads raised
\*   "filtered"     not targeted at this instance
\*   "completed"    the handler returned
\*   "not_available", "value_error"  the two excepts that publish an error ack
\*   "exception"    any other exception: the outer except logs it
_on_message(w, msg, eng) ==
    IF ~msg.json_ok
    THEN [w |-> w, outcome |-> "undecodable"]
    ELSE LET command == Lower(msg.command)
             target_instances == IF msg.target_instances = None
                                 THEN Some(<<"*">>) ELSE msg.target_instances
         IN  IF ~_should_process_command(w.cp.instance_id, target_instances)
             THEN [w |-> w, outcome |-> "filtered"]
             ELSE terminal_ack(execute(_publish_ack(w, command, "received", ""),
                                       command, msg.params, eng), command)

\* ------------------------------------------------------------- MQTTDetectionSink
\* topic_for_source: f"{prefix}/{source_id}", kept as its segments.
TopicPrefix == "nvr/detections"
topic_for_source(source_id, prefix) == <<prefix, source_id>>

\* MQTTDetectionSink._get_actual_source_id, on the sink's own list.
_get_actual_source_id(x, internal_source_id) ==
    IF x.sink.source_id_mapping # <<>> /\ internal_source_id < Len(x.sink.source_id_mapping)
    THEN x.sink.source_id_mapping[internal_source_id + 1]
    ELSE internal_source_id

\* An event built from the model_id and instance_id the sink was
\* constructed with.
create_event_static(x, actual_source_id) ==
    [ instance_id |-> "P", source_id |-> actual_source_id, model_id |-> "m1" ]

\* MQTTDetectionSink._create_event: the fields read from the config and the
\* mapped source id.
_create_event(x, actual_source_id) ==
    [ instance_id |-> x.cfg.instance_id, source_id |-> actual_source_id,
      model_id |-> x.cfg.model_id ]

\* config.source_id_mapping[i] when the config has a list that long.
ConfigSourceId(x, i) ==
    IF x.cfg.source_id_mapping # None /\ i < Len(The(x.cfg.source_id_mapping))
    THEN Some(The(x.cfg.source_id_mapping)[i + 1])
    ELSE None

\* One turn of the loop of __call__ for a pair (pred, frame); frame is None
\* when either is None, else the frame's source_id. What client.publish is
\* called with, plus what held at that moment: the frame's source_id, the
\* gate, and the config's mapping of the frame's source_id.
SinkFrame(x, frame) ==
    IF frame = None
    THEN <<>>
    ELSE LET actual_source_id == _get_actual_source_id(x, The(frame)) IN
         << [ topic |-> topic_for_source(actual_source_id, TopicPrefix),
              payload |-> _create_event(x, actual_source_id),
              qos |-> 0,
              frame_source_id |-> The(frame),
              gate |-> x.sink.running,
              config_source_id |-> ConfigSourceId(x, The(frame)) ] >>

RECURSIVE SinkLoop(_, _)
SinkLoop(x, batch) ==
    IF batch = <<>> THEN <<>>
    ELSE SinkFrame(x, Head(batch)) \o SinkLoop(x, Tail(batch))

\* MQTTDetectionSink.__call__ run to its end with nothing in between.
SinkCallWhole(x, batch) == IF ~x.sink.running THEN <<>> ELSE SinkLoop(x, batch)

\* The engine that calls the sink: the one the owner refers to, if started.
CurrentEngine(x) == IF x.wiring = "processor" THEN x.proc.pipeline ELSE x.pm.pipeline
Streaming(x) == CurrentEngine(x) # None /\ x.engines[The(CurrentEngine(x))].state = "started"

\* A (pred, frame) pair of a streaming engine: a frame of one of its
\* sources, or None.
Pairs(x) == {None} \cup {Some(i) : i \in 0..(x.engines[The(CurrentEngine(x))].nstreams - 1)}

\* The batches it hands over: one to MaxBatch pairs.
Batches(x) == SeqsUpTo(Pairs(x), MaxBatch) \ {<<>>}

\* ------------------------------------------------------------- inputs
TargetPool == { None, Some(<<>>), Some(<<"*">>), Some(<<"P">>), Some(<<"Q">>),
                Some(<<"P", "Q">>), Some(<<"*", "X">>) }

\* The params worth sending with each command; ids are the source ids used.
ParamPool(command, ids) ==
    CASE command = "change_model" ->
             {NoParams, Params({"other"}, Num(1))}
             \cup {Params({"model_id"}, Str(s)) : s \in {"m1", "m2", "", " "}}
      [] command = "set_fps" ->
             {NoParams, Params({"max_fps"}, Str("x"))}
             \cup {Params({"max_fps"}, Num(n)) : n \in 0..1}
      [] command \in {"add_stream", "remove_stream"} ->
             {NoParams, Params({"source_id"}, Str("x"))}
             \cup {Params({"source_id"}, Num(n)) : n \in ids}
      [] command = "rename_instance" ->
             {NoParams} \cup {Params({"new_instance_id"}, Str(s)) : s \in InstanceIds \cup {""}}
      [] command = "pause" -> {NoParams, Params({"other"}, Num(1))}
      [] OTHER -> {NoParams}

\* The messages with a command of "commands": every targeting of TargetPool
\* for the commands in "wide", those of "narrow" for the others.
MessagePool(commands, ids, wide, narrow) ==
    UNION { { Message(TRUE, c, p, t) :
                p \in ParamPool(c, ids),
                t \in IF c \in wide THEN TargetPool ELSE narrow }
            : c \in commands }

\* Spec: every command, one payload that is not JSON.
Messages ==
    {Message(FALSE, "", NoParams, None)}
    \cup MessagePool(Registered \cup {"PAUSE", "bogus"}, {0},
                    {"status", "pause", "rename_instance"}, {None, Some(<<"P">>)})

\* The engine misbehaves only when a handler recreates it.
EngineOutcomesFor(msg) ==
    IF msg.json_ok /\ Lower(msg.command) \in RestartCommands THEN EngineOutcomes ELSE {"ok"}

\* ------------------------------------------------------------- state
VARIABLES
    w,          \* the objects (see "world")
    last,       \* how the handling of the last message ended
    pub,        \* what the sink call under way, or the last one, published
    sk,         \* the engine thread inside MQTTDetectionSink.__call__
    th          \* the main thread in join() and the control-plane thread
                \* in _handle_restart, when run one access at a time

vars == <<w, last, pub, sk, th>>

\* The objects once StreamProcessor.start() has returned (wiring
\* "processor"), or once the manager has created and started the engine and
\* CommandHandlers is registered in its place (wiring "handlers").
InitialWorld(c, wiring) ==
    [ wiring |-> wiring,
      cfg |-> c,
      \* MQTTDetectionSink.__init__: "source_id_mapping or []" keeps the
      \* config's list object unless it is None or empty
      sink |-> [ running |-> TRUE,
                 source_id_mapping |-> IF c.source_id_mapping = None
                                       THEN <<>> ELSE The(c.source_id_mapping),
                 aliased |-> c.source_id_mapping # None /\ c.source_id_mapping # Some(<<>>) ],
      cp |-> [ instance_id |-> c.instance_id, acks |-> <<>>, statuses |-> <<>> ],
      calls |-> <<>>,
      proc |-> [ pipeline |-> IF wiring = "processor" THEN Some(0) ELSE None,
                 is_running |-> wiring = "processor",
                 is_paused |-> FALSE,
                 is_restarting |-> FALSE,
                 pipeline_started |-> wiring = "processor",
                 stop |-> FALSE ],
      pm |-> [ pipeline |-> IF wiring = "handlers" THEN Some(0) ELSE None,
               is_paused |-> FALSE,
               pipeline_started |-> wiring = "handlers" ],
      engines |-> [ id \in EngineIds |->
                      IF id = 0
                      THEN [state |-> "started", nstreams |-> Len(c.stream_uris),
                            model_id |-> c.model_id]
                      ELSE FreeEngine ],
      held |-> IF wiring = "processor" THEN Some(0) ELSE None ]

Wirings == {"processor", "handlers"}
NoLast == [outcome |-> "none"]
\* No sink call under way.
SinkIdle == [pc |-> "idle", batch |-> <<>>]
\* Main blocked in current_pipeline.join(), the control-plane thread idle;
\* nothing has failed and no stop has been handled. "during" is the
\* restart-type command handled last, "failure" the engine call that raised
\* in it and "old_model_id" the config's model_id when it arrived.
ThreadsIdle ==
    [pc |-> "join", rpc |-> "idle", restarts |-> 0, failed |-> FALSE, stopped |-> FALSE,
     during |-> "none", failure |-> "none", old_model_id |-> ""]

\* The configs Spec starts from: the one stream 0, with no mapping or with
\* the mapping the CLI builds for it.
SpecConfigs ==
    { c \in AcceptedConfigs :
        /\ c.stream_uris = <<Uri(StreamServer, 0)>>
        /\ c.source_id_mapping \in {None, Some(<<0>>)} }

Init ==
    /\ w \in { InitialWorld(c, wiring) : c \in SpecConfigs, wiring \in Wirings }
    /\ last = NoLast
    /\ pub = <<>>
    /\ sk = SinkIdle
    /\ th = ThreadsIdle

\* Reference counting frees an engine object once nothing refers to it.
Collect(x) ==
    [x EXCEPT !.engines = [id \in EngineIds |->
                             IF id \in LiveEngines(x) THEN x.engines[id] ELSE FreeEngine]]

\* What the control plane published has left the program once the message
\* is handled, and so have the calls it made: w keeps empty logs between
\* messages.
ClearLog(x) == [x EXCEPT !.cp.acks = <<>>, !.cp.statuses = <<>>, !.calls = <<>>]

\* The control-plane thread takes one message off the command topic.
Deliver(msg, eng) ==
    LET r == _on_message(w, msg, eng) IN
    /\ w' = Collect(ClearLog(r.w))
    /\ last' = [outcome |-> r.outcome]
    /\ UNCHANGED <<pub, sk, th>>

OnMessage == \E msg \in Messages : \E eng \in EngineOutcomesFor(msg) : Deliver(msg, eng)

Next == OnMessage

Spec == Init /\ [][Next]_vars

\* ------------------------------------------------------------- properties of Spec
\* They are stated on what _on_message does to the reachable state w for
\* every message of the pool; Deliver is enabled for each of them.
AckStatuses(x) == [k \in 1..Len(x.cp.acks) |-> x.cp.acks[k].ack_status]

Targeted(msg) ==
    msg.json_ok /\ _should_process_command(w.cp.instance_id,
                       IF msg.target_instances = None THEN Some(<<"*">>)
                       ELSE msg.target_instances)

\* A list of targets that is not empty, not ["*"] and does not name x.
TargetsAway(msg, x) ==
    /\ msg.json_ok
    /\ msg.target_instances # None
    /\ The(msg.target_instances) \notin {<<>>, <<"*">>}
    /\ ~Contains(The(msg.target_instances), x)

\* C1: every decodable message matching the instance gets exactly one
\* "received" ack followed by exactly one terminal ack ("completed" or
\* "error"), however the handler ends.
C1_ReceivedThenTerminalAck ==
    \A msg \in Messages : \A eng \in EngineOutcomesFor(msg) :
        Targeted(msg) =>
            LET acks == AckStatuses(_on_message(w, msg, eng).w) IN
            /\ Len(acks) = 2
            /\ acks[1] = "received"
            /\ acks[2] \in {"completed", "error"}

\* What a config-changing command may touch.
ConfigFields(x) ==
    [ model_id |-> x.cfg.model_id, max_fps |-> x.cfg.max_fps,
      stream_uris |-> x.cfg.stream_uris, source_id_mapping |-> x.cfg.source_id_mapping ]

\* C3: after a change_model, set_fps, add_stream or remove_stream that
\* fails (validator, config rejection or failed restart), model_id, max_fps,
\* stream_uris and source_id_mapping equal their values before the command,
\* whatever accepted config the instance started from.
C3_FailedChangeRestoresConfig ==
    \A msg \in Messages : \A eng \in EngineOutcomesFor(msg) :
        LET r == _on_message(w, msg, eng) IN
        ( /\ msg.json_ok
          /\ Lower(msg.command) \in {"change_model", "set_fps", "add_stream", "remove_stream"}
          /\ r.outcome \in {"value_error", "exception"} ) =>
            ConfigFields(r.w) = ConfigFields(w)

\* C7: a command whose target_instances is a non-empty list other than
\* ["*"] that does not contain the current instance_id publishes no ack and
\* no status, invokes no handler and changes neither config nor engine.
C7_FilteredCommandHasNoEffect ==
    \A msg \in Messages : \A eng \in EngineOutcomesFor(msg) :
        TargetsAway(msg, w.cp.instance_id) =>
            _on_message(w, msg, eng) = [w |-> w, outcome |-> "filtered"]

\* A command naming only the other instance has just been dropped.
C7_Witness == last.outcome = "filtered" /\ w.cp.instance_id = "P"

IsRename(msg) == msg.json_ok /\ Lower(msg.command) = "rename_instance"

\* C8: a rename P -> Q publishes "received" and "completed" on P's ack
\* topic, and a retained "running" status with renamed_from = P on Q's
\* status topic.
C8_RenameAcksOnOldTopic ==
    \A msg \in Messages :
        LET old == w.cp.instance_id
            r == _on_message(w, msg, "ok")
        IN  (IsRename(msg) /\ r.outcome = "completed" /\ r.w.cp.instance_id # old) =>
                /\ AckStatuses(r.w) = <<"received", "completed">>
                /\ \A k \in 1..2 : r.w.cp.acks[k].topic = old
                /\ Len(r.w.cp.statuses) > 0
                /\ LET st == Last(r.w.cp.statuses) IN
                   /\ st.status = "running" /\ st.retain
                   /\ st.renamed_from = Some(old)
                   /\ st.topic = r.w.cp.instance_id

\* C9: a successful rename to Q leaves config.instance_id and the control
\* plane's instance_id both Q; from then on a command targeted only at the
\* old name is dropped without ack, and one targeted at Q is acknowledged
\* and executed.
C9_RenameRetargets ==
    /\ \A msg \in Messages :
           LET r == _on_message(w, msg, "ok") IN
           (IsRename(msg) /\ r.outcome = "completed") =>
               /\ r.w.cfg.instance_id = The(Get(msg.params, "new_instance_id")).str
               /\ r.w.cp.instance_id = r.w.cfg.instance_id
    /\ w.cp.instance_id = "Q" =>
           \A msg \in Messages : \A eng \in EngineOutcomesFor(msg) :
               LET r == _on_message(w, msg, eng) IN
               /\ msg.target_instances = Some(<<"P">>) =>
                      r = [w |-> w, outcome |-> "filtered"]
               /\ msg.target_instances = Some(<<"Q">>) =>
                      /\ r.outcome \notin {"filtered", "undecodable"}
                      /\ Len(r.w.cp.acks) > 0
                      /\ r.w.cp.acks[1].ack_status = "received"
                      /\ r.w.cp.acks[1].topic = "Q"

\* The instance is called Q and has just dropped a command.
C9_Witness == w.cfg.instance_id = "Q" /\ w.cp.instance_id = "Q" /\ last.outcome = "filtered"

\* C10: rename_instance changes config.instance_id and the control plane's
\* instance_id and nothing else: the engine reference and the engine
\* objects, is_paused / is_running, the sink's gate, the restart flag,
\* model_id, max_fps, stream_uris and source_id_mapping stay as they were.
C10_RenameFrame ==
    \A msg \in Messages :
        IsRename(msg) =>
            LET r == _on_message(w, msg, "ok") IN
            [r.w EXCEPT !.cfg.instance_id = w.cfg.instance_id, !.cp = w.cp] = w

\* A paused instance that has been renamed.
C10_Witness ==
    /\ w.cfg.instance_id = "Q" /\ last.outcome = "completed"
    /\ ~w.sink.running /\ (w.proc.is_paused \/ w.pm.is_paused)

\* ------------------------------------------------------------- SpecStreams
\* Stream changes and restarts from every accepted config, with the engine
\* calling the sink between commands.
StreamMessages ==
    MessagePool({"add_stream", "remove_stream", "restart"}, SourceIds, {}, {None})

InitStreams ==
    /\ w \in { InitialWorld(c, wiring) :
                 c \in {x \in AcceptedConfigs : x.max_fps = None}, wiring \in Wirings }
    /\ last = NoLast
    /\ pub = <<>>
    /\ sk = SinkIdle
    /\ th = ThreadsIdle

OnStreamMessage ==
    \E msg \in StreamMessages : \E eng \in EngineOutcomesFor(msg) : Deliver(msg, eng)

\* The engine thread runs one whole sink call, with a single prediction and
\* frame (_wrap_in_list makes the one-pair batch).
SinkCall ==
    /\ Streaming(w)
    /\ \E pair \in Pairs(w) : pub' = SinkCallWhole(w, <<pair>>)
    /\ UNCHANGED <<w, last, sk, th>>

NextStreams == OnStreamMessage \/ SinkCall

SpecStreams == InitStreams /\ [][NextStreams]_vars

NoDuplicates(s) == \A i, j \in 1..Len(s) : s[i] = s[j] => i = j

\* int(parts[-1]) of parse_source_id_from_topic on a topic of the sink.
TopicLastSegment(topic) == topic[Len(topic)]

\* C4: every published detection event has the last segment of its topic
\* equal to its payload's source_id, and both equal to
\* config.source_id_mapping[frame.source_id] read when it is published.
C4_EventCarriesConfigSourceId ==
    \A k \in 1..Len(pub) :
        /\ TopicLastSegment(pub[k].topic) = pub[k].payload.source_id
        /\ pub[k].config_source_id # None =>
               pub[k].payload.source_id = The(pub[k].config_source_id)

\* C6: in every state reachable from an accepted config, stream_uris and
\* source_id_mapping have the same length, source_id_mapping holds no id
\* twice, and stream_uris is not empty.
C6_StreamListsParallel ==
    /\ Len(w.cfg.stream_uris) > 0
    /\ w.cfg.source_id_mapping # None =>
           /\ Len(w.cfg.stream_uris) = Len(The(w.cfg.source_id_mapping))
           /\ NoDuplicates(The(w.cfg.source_id_mapping))

\* ------------------------------------------------------------- SpecSink
\* The engine thread inside MQTTDetectionSink.__call__, one statement at a
\* time, while the control-plane thread handles pause, resume and restart.
SinkMessages == MessagePool({"pause", "resume", "restart"}, {}, {}, {None})

InitSink ==
    /\ w \in { InitialWorld(c, wiring) : c \in SpecConfigs, wiring \in Wirings }
    /\ last = NoLast
    /\ pub = <<>>
    /\ sk = SinkIdle
    /\ th = ThreadsIdle

OnSinkMessage ==
    \E msg \in SinkMessages : \E eng \in EngineOutcomesFor(msg) : Deliver(msg, eng)

\* "if not self._running.is_set(): return", read once per call.
SinkEnter ==
    /\ sk.pc = "idle"
    /\ Streaming(w)
    /\ \E batch \in Batches(w) :
           sk' = IF w.sink.running THEN [pc |-> "loop", batch |-> batch] ELSE SinkIdle
    /\ pub' = <<>>
    /\ UNCHANGED <<w, last, th>>

\* One turn of "for pred, frame in zip(predictions, video_frames)".
SinkStep ==
    /\ sk.pc = "loop"
    /\ pub' = pub \o SinkFrame(w, Head(sk.batch))
    /\ sk' = IF Tail(sk.batch) = <<>> THEN SinkIdle
             ELSE [pc |-> "loop", batch |-> Tail(sk.batch)]
    /\ UNCHANGED <<w, last, th>>

NextSink == OnSinkMessage \/ SinkEnter \/ SinkStep

SpecSink == InitSink /\ [][NextSink]_vars

\* C2: no detection event is published between the return of pause() and
\* the next resume(): the gate is set whenever the sink publishes, sink
\* calls already under way (multi-frame batches included).
C2_NoPublishWhilePaused == \A k \in 1..Len(pub) : pub[k].gate

\* ------------------------------------------------------------- SpecJoin
\* StreamProcessor.join() on the main thread against _handle_restart on the
\* control-plane thread, each reading or writing one shared field per step.
\* th.pc is where main is:
\*   "join"       blocked in current_pipeline.join() (w.held)
\*   "flag"       about to read _is_restarting
\*   "ptr1"       about to read "self.pipeline is not None"
\*   "ptr2"       about to read "self.pipeline is not current_pipeline"
\*   "wait"       in "while self._is_restarting: sleep"
\*   "top"        about to read is_running at the top of "while True"
\*   "top2"       about to read self.pipeline (and _pipeline_started)
\*   "take"       about to run current_pipeline = self.pipeline
\*   "keepalive"  in the else branch's "while not STOP: sleep"
\*   "cleanup"    out of the loop, before the disconnects
\*   "done"       join() has returned
\*   "crashed"    current_pipeline.join() raised on None
\* th.rpc is the statement of _handle_restart the control plane is at.
InitJoin ==
    /\ w \in { InitialWorld(c, "processor") : c \in SpecConfigs }
    /\ last = NoLast
    /\ pub = <<>>
    /\ sk = SinkIdle
    /\ th = ThreadsIdle

Main(pc) == [th EXCEPT !.pc = pc]
Ctl(rpc) == [th EXCEPT !.rpc = rpc]

\* current_pipeline.join() returns once that engine has terminated.
MainJoinReturns ==
    /\ th.pc = "join"
    /\ w.engines[The(w.held)].state = "terminated"
    /\ th' = Main("flag")
    /\ UNCHANGED <<w, last, pub, sk>>

MainReadFlag ==
    /\ th.pc = "flag"
    /\ th' = Main(IF w.proc.is_restarting THEN "wait" ELSE "ptr1")
    /\ UNCHANGED <<w, last, pub, sk>>

MainReadPipeline ==
    /\ th.pc = "ptr1"
    /\ th' = Main(IF w.proc.pipeline # None THEN "ptr2" ELSE "cleanup")
    /\ UNCHANGED <<w, last, pub, sk>>

MainComparePipeline ==
    /\ th.pc = "ptr2"
    /\ th' = Main(IF w.proc.pipeline # w.held THEN "wait" ELSE "cleanup")
    /\ UNCHANGED <<w, last, pub, sk>>

\* The wait loop ends when it reads the flag False; "continue".
MainWaitEnds ==
    /\ th.pc = "wait"
    /\ ~w.proc.is_restarting
    /\ th' = Main("top")
    /\ UNCHANGED <<w, last, pub, sk>>

MainTop ==
    /\ th.pc = "top"
    /\ th' = Main(IF w.proc.is_running THEN "top2" ELSE "keepalive")
    /\ UNCHANGED <<w, last, pub, sk>>

MainTop2 ==
    /\ th.pc = "top2"
    /\ th' = Main(IF w.proc.pipeline # None /\ w.proc.pipeline_started
                  THEN "take" ELSE "keepalive")
    /\ UNCHANGED <<w, last, pub, sk>>

MainTake ==
    /\ th.pc = "take"
    /\ IF w.proc.pipeline = None
       THEN th' = Main("crashed") /\ w' = w
       ELSE th' = Main("join") /\ w' = Collect([w EXCEPT !.held = w.proc.pipeline])
    /\ UNCHANGED <<last, pub, sk>>

\* "while not STOP" ends; "break".
MainKeepAliveEnds ==
    /\ th.pc = "keepalive"
    /\ w.proc.stop
    /\ th' = Main("cleanup")
    /\ UNCHANGED <<w, last, pub, sk>>

\* The disconnects after the loop.
MainCleanup ==
    /\ th.pc = "cleanup"
    /\ th' = Main("done")
    /\ UNCHANGED <<w, last, pub, sk>>

\* The control plane is connected until cleanup has run.
Connected == th.pc # "done"

\* A restart command arrives: "received", "restarting", the flag.
RestartBegin ==
    /\ th.rpc = "idle" /\ Connected
    /\ th.restarts < MaxRestarts
    /\ w' = restart_begin(_publish_ack(w, "restart", "received", ""))
    /\ th' = [th EXCEPT !.rpc = "terminate", !.during = "restart", !.failure = "none",
                        !.old_model_id = w.cfg.model_id]
    /\ UNCHANGED <<last, pub, sk>>

RestartTerminate ==
    /\ th.rpc = "terminate"
    /\ \E eng \in {"ok", "terminate"} :
         /\ w' = restart_terminate(w, eng).w
         /\ th' = IF Raised(restart_terminate(w, eng))
                  THEN [th EXCEPT !.rpc = "except", !.failed = TRUE, !.failure = "terminate"]
                  ELSE Ctl("unref")
    /\ UNCHANGED <<last, pub, sk>>

RestartUnref ==
    /\ th.rpc = "unref"
    /\ w' = restart_unref(w)
    /\ th' = Ctl("not_running")
    /\ UNCHANGED <<last, pub, sk>>

RestartNotRunning ==
    /\ th.rpc = "not_running"
    /\ w' = restart_not_running(w)
    /\ th' = Ctl("create")
    /\ UNCHANGED <<last, pub, sk>>

RestartCreate ==
    /\ th.rpc = "create"
    /\ \E eng \in {"ok", "create"} :
         /\ w' = restart_create(w, eng).w
         /\ th' = IF eng = "ok" THEN Ctl("start")
                  ELSE [th EXCEPT !.rpc = "except", !.failed = TRUE, !.failure = "create"]
    /\ UNCHANGED <<last, pub, sk>>

RestartStart ==
    /\ th.rpc = "start"
    /\ \E eng \in {"ok", "start"} :
         /\ w' = restart_start(w, eng).w
         /\ th' = IF eng = "ok" THEN Ctl("publish")
                  ELSE [th EXCEPT !.rpc = "except", !.failed = TRUE, !.failure = "start"]
    /\ UNCHANGED <<last, pub, sk>>

RestartPublishRunning ==
    /\ th.rpc = "publish"
    /\ w' = restart_publish_running(w)
    /\ th' = Ctl("finally")
    /\ UNCHANGED <<last, pub, sk>>

RestartExcept ==
    /\ th.rpc = "except"
    /\ w' = restart_failed(w)
    /\ th' = Ctl("finally_raise")
    /\ UNCHANGED <<last, pub, sk>>

\* finally; then _on_message's terminal ack, or its outer except.
RestartFinally ==
    /\ th.rpc \in {"finally", "finally_raise"}
    /\ LET exc == IF th.rpc = "finally" THEN NoExc ELSE Exc("RuntimeError", "failed")
           r == terminal_ack([w |-> restart_finally(w), exc |-> exc], "restart")
       IN  /\ w' = Collect(ClearLog(r.w))
           /\ last' = [outcome |-> r.outcome]
    /\ th' = [th EXCEPT !.rpc = "idle", !.restarts = @ + 1]
    /\ UNCHANGED <<pub, sk>>

\* A stop command, handled between restarts.
StopCommand ==
    /\ th.rpc = "idle" /\ Connected
    /\ ~th.stopped
    /\ LET r == _on_message(w, Message(TRUE, "stop", NoParams, None), "ok") IN
       /\ w' = Collect(ClearLog(r.w))
       /\ last' = [outcome |-> r.outcome]
    /\ th' = [th EXCEPT !.stopped = TRUE]
    /\ UNCHANGED <<pub, sk>>

\* A change_model command handled from its first statement to its last
\* while main does not run; r is what handling it did.
ChangeModelDone(r, eng) ==
    /\ w' = Collect(ClearLog(r.w))
    /\ last' = [outcome |-> r.outcome]
    /\ th' = [th EXCEPT !.restarts = @ + 1,
                        !.during = "change_model",
                        !.old_model_id = w.cfg.model_id,
                        !.failed = @ \/ r.outcome # "completed",
                        !.failure = IF r.outcome = "completed" THEN "none" ELSE eng]
    /\ UNCHANGED <<pub, sk>>

ChangeModelCommand ==
    /\ th.rpc = "idle" /\ Connected
    /\ th.restarts < MaxRestarts
    /\ \E eng \in EngineOutcomes :
         ChangeModelDone(_on_message(w, Message(TRUE, "change_model",
                                                Params({"model_id"}, Str("m2")), None), eng),
                         eng)

NextJoin ==
    \/ MainJoinReturns \/ MainReadFlag \/ MainReadPipeline \/ MainComparePipeline
    \/ MainWaitEnds \/ MainTop \/ MainTop2 \/ MainTake \/ MainKeepAliveEnds \/ MainCleanup
    \/ RestartBegin \/ RestartTerminate \/ RestartUnref \/ RestartNotRunning
    \/ RestartCreate \/ RestartStart \/ RestartPublishRunning \/ RestartExcept
    \/ RestartFinally \/ StopCommand \/ ChangeModelCommand

SpecJoin == InitJoin /\ [][NextJoin]_vars

\* Both threads keep running: main takes its next step whenever it has one,
\* and so does _handle_restart once it has begun. Nothing obliges a command
\* to arrive.
MainSteps ==
    \/ MainJoinReturns \/ MainReadFlag \/ MainReadPipeline \/ MainComparePipeline
    \/ MainWaitEnds \/ MainTop \/ MainTop2 \/ MainTake \/ MainKeepAliveEnds \/ MainCleanup
RestartSteps ==
    \/ RestartTerminate \/ RestartUnref \/ RestartNotRunning \/ RestartCreate
    \/ RestartStart \/ RestartPublishRunning \/ RestartExcept \/ RestartFinally
SpecJoinFair == SpecJoin /\ WF_vars(MainSteps) /\ WF_vars(RestartSteps)

\* C5: with any number of successful restart-type commands handled while
\* main is in the join loop, main ends blocked in join() of the newest
\* engine: it never reaches the shutdown cleanup, the keep-alive branch or
\* a join() on None.
C5_MainStaysInJoinLoop ==
    (~th.failed /\ ~th.stopped) =>
        th.pc \notin {"keepalive", "cleanup", "done", "crashed"}

\* C16: if a restart fails because InferencePipeline.init or start raises
\* while main is in the join loop, then in every interleaving main leaves
\* the loop and runs the shutdown cleanup: join() returns.
C16_FailedRestartShutsDown ==
    (th.failure \in {"create", "start"}) ~> (th.pc = "done")

\* r is what handling a restart did: acknowledged "received" then
\* "completed", and the engine referred to afterwards is started, was
\* created with model_id, and is_running is set.
BroughtUp(r, model_id) ==
    /\ r.outcome = "completed"
    /\ AckStatuses(r.w) = <<"received", "completed">>
    /\ r.w.proc.is_running
    /\ r.w.proc.pipeline # None
    /\ r.w.engines[The(r.w.proc.pipeline)].state = "started"
    /\ r.w.engines[The(r.w.proc.pipeline)].model_id = model_id

\* C18: after a change_model whose restart failed (init or start raised)
\* and was rolled back, the engine is not running and the model_id is the
\* old one; the instance still receives commands, and a restart sent next is
\* acknowledged, executed and brings up a running engine created with the
\* rolled-back model_id.
C18_RestartAfterFailedChange ==
    (th.during = "change_model" /\ th.failure \in {"create", "start"})
        => /\ ~w.proc.is_running
           /\ w.cfg.model_id = th.old_model_id
           /\ Connected
           /\ BroughtUp(_on_message(w, Message(TRUE, "restart", NoParams, None), "ok"),
                        th.old_model_id)

\* ------------------------------------------------------------- order of calls (Spec)
\* Every pause_stream among the calls of x was made with the gate already
\* clear and the gate is clear afterwards; every resume_stream was made
\* with the gate still clear and the gate is set afterwards.
GateOrder(x) ==
    \A k \in 1..Len(x.calls) :
        /\ x.calls[k].op = "pause_stream" => ~x.calls[k].gate /\ ~x.sink.running
        /\ x.calls[k].op = "resume_stream" => ~x.calls[k].gate /\ x.sink.running

\* C14: in every execution of pause the sink gate is cleared before the
\* engine is asked to stop buffering (pause_stream); in every execution of
\* resume the engine is asked to resume buffering (resume_stream) before the
\* sink gate is set.
C14_GateBeforeEngine ==
    \A msg \in Messages : \A eng \in EngineOutcomesFor(msg) :
        (Targeted(msg) /\ Lower(msg.command) \in {"pause", "resume"})
            => GateOrder(_on_message(w, msg, eng).w)

\* A pause has been executed: the engine in use is paused and the gate is
\* clear.
C14_Witness ==
    /\ last.outcome = "completed"
    /\ CurrentEngine(w) # None
    /\ w.engines[The(CurrentEngine(w))].state = "paused"
    /\ ~w.sink.running

\* Every terminate, init and start among the calls of x was made with the
\* restart flag set, and the flag is clear afterwards.
FlagBrackets(x) ==
    /\ \A k \in 1..Len(x.calls) :
          x.calls[k].op \in {"terminate", "init", "start"} => x.calls[k].restarting
    /\ ~x.proc.is_restarting

\* C15: in every restart, plain or as part of change_model, set_fps,
\* add_stream or remove_stream, the is_restarting flag is set before the old
\* engine is terminated and before a new engine is created, and it is clear
\* once the command has returned or raised, whichever of terminate, init
\* and start failed.
C15_FlagBracketsRestart ==
    \A msg \in Messages : \A eng \in EngineOutcomesFor(msg) :
        (Targeted(msg) /\ Lower(msg.command) \in RestartCommands)
            => FlagBrackets(_on_message(w, msg, eng).w)

\* A restart whose init raised has been handled: no engine is referred to
\* and the flag is clear.
C15_Witness ==
    /\ last.outcome = "exception"
    /\ CurrentEngine(w) = None
    /\ ~w.proc.is_restarting

\* The status names x published for the message being handled, in order.
StatusNames(x) == [k \in 1..Len(x.cp.statuses) |-> x.cp.statuses[k].status]

\* r is what handling a message did: the engine was called and the handler
\* left through an exception that is not a ValueError.
RestartFailed(r) == r.outcome = "exception" /\ Len(r.w.calls) > 0

ReconfiguringThenError(r) ==
    RestartFailed(r) => StatusNames(r.w) = <<"reconfiguring", "error">>

\* C17: when the engine restart fails during change_model, set_fps,
\* add_stream or remove_stream, the statuses the command publishes are
\* exactly "reconfiguring" and then one "error".
C17_FailedReconfigStatuses ==
    \A msg \in Messages : \A eng \in EngineOutcomesFor(msg) :
        (Targeted(msg) /\ Lower(msg.command) \in RestartCommands \ {"restart"})
            => ReconfiguringThenError(_on_message(w, msg, eng))

\* The key a command reads from params.
ParamKey(command) ==
    CASE command = "change_model" -> "model_id"
      [] command = "set_fps" -> "max_fps"
      [] command = "rename_instance" -> "new_instance_id"
      [] OTHER -> "source_id"

\* The value v is one CommandValidators rejects for the command (for
\* rename_instance, which has no validator: an empty id).
ValidatorRejects(command, v) ==
    CASE command = "change_model" -> ~validate_model_id(v).ok
      [] command = "set_fps" -> ~validate_fps(v).ok
      [] command = "rename_instance" -> ~Truthy(v)
      [] OTHER -> ~validate_source_id(v).ok

\* params is missing or empty, lacks the key, or holds a rejected value.
InvalidParams(command, params) ==
    \/ ~ParamsTruthy(params)
    \/ Get(params, ParamKey(command)) = None
    \/ ValidatorRejects(command, The(Get(params, ParamKey(command))))

\* r is what handling a message did to x: "received" then an "error" ack
\* with a message, no status, no call on the engine, and the config, the
\* engine objects and the owners' fields as in x.
RejectedUnchanged(r, x) ==
    /\ AckStatuses(r.w) = <<"received", "error">>
    /\ r.w.cp.acks[2].message # ""
    /\ r.w.cp.statuses = <<>>
    /\ r.w.calls = <<>>
    /\ r.w.cfg = x.cfg
    /\ r.w.engines = x.engines
    /\ r.w.proc = x.proc
    /\ r.w.pm = x.pm
    /\ r.w.sink = x.sink

\* C19: a change_model, set_fps, add_stream, remove_stream or
\* rename_instance whose params is missing, empty or rejected by the
\* validator gets a terminal "error" ack with the validator's message and
\* changes nothing: no status is published, no restart started, the config
\* and the engine are as before.
C19_InvalidParamsRejected ==
    \A msg \in Messages : \A eng \in EngineOutcomesFor(msg) :
        (/\ Targeted(msg)
         /\ Lower(msg.command) \in TakesParams
         /\ InvalidParams(Lower(msg.command), msg.params))
            => RejectedUnchanged(_on_message(w, msg, eng), w)

\* r is what handling a message did: the registry refused the name, with
\* its message that lists the available commands.
NotAvailable(r) ==
    /\ r.outcome = "not_available"
    /\ r.w.cp.acks[Len(r.w.cp.acks)].message = "Command not available. Available: ..."

\* C20: a targeted or broadcast command whose name is not registered gets a
\* "received" ack and then an "error" ack whose message lists the available
\* commands; no handler runs and the config, the engine state and the
\* retained status are unchanged.
C20_UnknownCommandRejected ==
    \A msg \in Messages : \A eng \in EngineOutcomesFor(msg) :
        (Targeted(msg) /\ Lower(msg.command) \notin Registered)
            => /\ NotAvailable(_on_message(w, msg, eng))
               /\ RejectedUnchanged(_on_message(w, msg, eng), w)

\* A command with an unregistered name has just been refused.
C20_Witness ==
    /\ last.outcome = "not_available"
    /\ \E msg \in Messages :
          /\ Targeted(msg) /\ Lower(msg.command) \notin Registered
          /\ Collect(ClearLog(_on_message(w, msg, "ok").w)) = w

\* ------------------------------------------------------------- SpecConfig
\* The config object on its own: a caller invokes add_stream and
\* remove_stream directly, with any argument.

\* What add_stream may be handed: the source ids and one value that is not
\* an int.
SourceIdArgs == {Num(n) : n \in SourceIds} \cup {Str("x")}

\* StreamProcessorConfig.add_stream from its first statement, the
\* isinstance check; add_stream above is the rest of it.
add_stream_arg(x, v) ==
    IF ~v.isnum
    THEN Raise(x, "ConfigValidationError", "source_id must be int, got str")
    ELSE add_stream(x, v.num)

\* The ids remove_stream is called with: the source ids and one id no
\* config of the model holds.
RemoveArgs == 0..(MaxSourceId + 1)

InitConfig ==
    /\ w \in { InitialWorld(c, "processor") : c \in {x \in AcceptedConfigs : x.max_fps = None} }
    /\ last = NoLast
    /\ pub = <<>>
    /\ sk = SinkIdle
    /\ th = ThreadsIdle

ConfigCall(r, ok, failed) ==
    /\ w' = r.w
    /\ last' = [outcome |-> IF Raised(r) THEN failed ELSE ok]
    /\ UNCHANGED <<pub, sk, th>>

ConfigAddStream == \E v \in SourceIdArgs : ConfigCall(add_stream_arg(w, v), "added", "add_failed")

ConfigRemoveStream == \E n \in RemoveArgs : ConfigCall(remove_stream(w, n), "removed", "remove_failed")

NextConfig == ConfigAddStream \/ ConfigRemoveStream

SpecConfig == InitConfig /\ [][NextConfig]_vars

\* source_id_mapping as a list: None holds no id.
MappingList(c) == IF c.source_id_mapping = None THEN <<>> ELSE The(c.source_id_mapping)

\* The two stream lists of y are those of x, element by element.
SameStreams(x, y) ==
    /\ y.cfg.stream_uris = x.cfg.stream_uris
    /\ MappingList(y.cfg) = MappingList(x.cfg)

\* r, the outcome of a call on x, left x's config object as it was.
FailedAndKept(r, x) == Raised(r) /\ r.w.cfg = x.cfg

\* The round trip on x: add_stream(n), then remove_stream(n) on the result.
RoundTrip(a, n) == IF Raised(a) THEN a ELSE remove_stream(a.w, n)

RoundTripRestores(r, x) == ~Raised(r) /\ SameStreams(x, r.w)

\* C11: from every config accepted at construction (and every config
\* add_stream / remove_stream lead to), add_stream(n) for an id n that is
\* not present followed by remove_stream(n) succeeds and leaves stream_uris
\* and source_id_mapping element by element as before the add; with exactly
\* one stream, remove_stream fails and leaves both as they were.
C11_AddRemoveRoundTrip ==
    /\ \A n \in SourceIds :
          ~Contains(MappingList(w.cfg), n) =>
              RoundTripRestores(RoundTrip(add_stream(w, n), n), w)
    /\ Len(w.cfg.stream_uris) = 1 =>
          \A n \in RemoveArgs : FailedAndKept(remove_stream(w, n), w)

\* The outcome r of a call on x that raised changed nothing in the config.
RaisedKeeps(r, x) == Raised(r) => r.w.cfg = x.cfg

\* C12: add_stream(n) raises when n is not an int or is already in
\* source_id_mapping; remove_stream(n) raises when n is not in the mapping
\* (or there is no mapping) or when one stream is left; and whenever either
\* raises, stream_uris and source_id_mapping are what they were before the
\* call.
C12_RejectionKeepsConfig ==
    /\ \A v \in SourceIdArgs :
          /\ (~v.isnum \/ Contains(MappingList(w.cfg), v.num)) => Raised(add_stream_arg(w, v))
          /\ RaisedKeeps(add_stream_arg(w, v), w)
    /\ \A n \in RemoveArgs :
          /\ (~Contains(MappingList(w.cfg), n) \/ Len(w.cfg.stream_uris) = 1)
                => Raised(remove_stream(w, n))
          /\ RaisedKeeps(remove_stream(w, n), w)

\* A remove_stream has just been refused on a config with one stream whose
\* mapping names it: removing that id is refused as the last stream, adding
\* it as a duplicate.
C12_Witness ==
    /\ last.outcome = "remove_failed"
    /\ Len(w.cfg.stream_uris) = 1
    /\ Len(MappingList(w.cfg)) = 1
    /\ Raised(add_stream_arg(w, Num(MappingList(w.cfg)[1])))
    /\ Raised(remove_stream(w, MappingList(w.cfg)[1]))

\* ------------------------------------------------------------- SpecQueue
\* The client's network loop thread and the command topic: messages arrive
\* at any time and wait in arrival order; the loop thread calls _on_message
\* for the oldest one, and _on_message calls the handler itself, so the
\* thread is back for the next message only when the handler has returned
\* or raised. A restart is run one statement at a time (th.rpc), the other
\* handlers in two steps.
\*   th.inbox    the messages that arrived and were not yet handed over,
\*               each with its arrival number
\*   th.started  the arrival numbers of the handlers started, in order
\*   th.overlap  a handler was started while another one was executing
\*   th.current  the command being handled
QueueCommands == {"restart", "pause", "resume"}

InitQueue ==
    /\ w \in { InitialWorld(c, "processor") : c \in SpecConfigs }
    /\ last = NoLast
    /\ pub = <<>>
    /\ sk = SinkIdle
    /\ th = ThreadsIdle @@ [inbox |-> <<>>, arrived |-> 0, started |-> <<>>,
                            overlap |-> FALSE, current |-> ""]

\* The loop thread calls every handler itself.
LoopThreadAlwaysFree(t) == TRUE

\* The loop thread is out of _on_message: no handler is executing.
LoopThreadFree(t) == t.rpc = "idle"

\* A message is published on the command topic.
Arrive ==
    /\ th.arrived < MaxInbox
    /\ \E c \in QueueCommands :
         th' = [th EXCEPT !.arrived = @ + 1,
                          !.inbox = Append(@, [n |-> th.arrived + 1, command |-> c])]
    /\ UNCHANGED <<w, last, pub, sk>>

\* _on_message is entered for the oldest message; next is where the
\* control-plane thread is once the handler has been called.
Started(next) ==
    [th EXCEPT !.inbox = Tail(@),
               !.started = Append(@, Head(th.inbox).n),
               !.overlap = @ \/ th.rpc # "idle",
               !.current = Head(th.inbox).command,
               !.rpc = next]

\* ... for a restart: "received", then _handle_restart up to the flag.
DispatchRestart ==
    /\ th.inbox # <<>> /\ Head(th.inbox).command = "restart"
    /\ LoopThreadFree(th)
    /\ w' = restart_begin(_publish_ack(w, "restart", "received", ""))
    /\ th' = Started("terminate")
    /\ UNCHANGED <<last, pub, sk>>

\* ... for another command: "received", then the handler is called.
DispatchOther ==
    /\ th.inbox # <<>> /\ Head(th.inbox).command # "restart"
    /\ LoopThreadFree(th)
    /\ w' = _publish_ack(w, Head(th.inbox).command, "received", "")
    /\ th' = Started("handler")
    /\ UNCHANGED <<last, pub, sk>>

\* The handler returns or raises; the terminal ack; _on_message returns.
HandlerDone(r) ==
    /\ w' = Collect(ClearLog(r.w))
    /\ last' = [outcome |-> r.outcome]
    /\ th' = Ctl("idle")
    /\ UNCHANGED <<pub, sk>>

HandlerReturns ==
    /\ th.rpc = "handler"
    /\ HandlerDone(terminal_ack(execute(w, th.current, NoParams, "ok"), th.current))

NextQueue ==
    \/ Arrive \/ DispatchRestart \/ DispatchOther \/ HandlerReturns
    \/ RestartTerminate \/ RestartUnref \/ RestartNotRunning \/ RestartCreate
    \/ RestartStart \/ RestartPublishRunning \/ RestartExcept \/ RestartFinally

SpecQueue == InitQueue /\ [][NextQueue]_vars

\* C13: on one instance at most one command handler is executing at any
\* time, handlers are started in the order their messages arrived, and a
\* command that arrives while a restart is in progress is not started until
\* that restart has returned or raised: it is still waiting while the
\* restart is between its first and its last statement.
C13_OneHandlerInArrivalOrder ==
    /\ ~th.overlap
    /\ \A k \in 1..Len(th.started) : th.started[k] = k
    /\ (th.current = "restart" /\ th.rpc # "idle")
          => /\ w.proc.is_restarting
             /\ Len(th.started) + Len(th.inbox) = th.arrived
             /\ \A k \in 1..Len(th.inbox) : th.inbox[k].n > th.started[Len(th.started)]

\* A restart is at pipeline.start() while a command that arrived after it
\* waits.
C13_Witness ==
    /\ th.current = "restart" /\ th.rpc = "start"
    /\ th.inbox # <<>>
    /\ th.started # <<>>
    /\ th.inbox[1].n = th.started[Len(th.started)] + 1

\* ------------------------------------------------------------- the "executing" ack (Spec)
\* acks are the ack_status values one message produced, in order: "received"
\* comes first and "executing" directly after it, ahead of whatever the
\* handler and the terminal ack add.
ExecutingSecond(acks) ==
    /\ Len(acks) >= 2
    /\ acks[1] = "received"
    /\ acks[2] = "executing"

\* C21: for every registered command the instance accepts, an ack with
\* ack_status "executing" is published on the ack topic after the "received"
\* ack and before the handler is invoked.
C21_ExecutingAckBeforeHandler ==
    \A msg \in Messages : \A eng \in EngineOutcomesFor(msg) :
        (Targeted(msg) /\ Lower(msg.command) \in Registered)
            => ExecutingSecond(AckStatuses(_on_message(w, msg, eng).w))

\* ------------------------------------------------------------- SpecStart
\* StreamProcessor.start(), one step at a time on the main thread, with the
\* control plane's network loop thread beside it. The broker's answer to
\* CONNECT comes whenever it comes, accepting (rc = 0) or refusing; once the
\* subscription is made, commands are delivered and handled on the loop
\* thread while start() goes on.
\*   th.spc            where start() is
\*   th.enabled        config.enable_control_plane
\*   th.net            the loop thread: "off", "connecting", "on_connect"
\*                     (inside _on_connect, subscribed), "connected", "refused"
\*   th.subscribed     client.subscribe(command_topic) was called
\*   th.connected      the Event _connected
\*   th.control_plane  StreamProcessor.control_plane is not None
\*   th.handled        how many commands were handled
MaxStartCommands == 2

\* The commands sent during a startup: those that do not recreate the engine.
StartMessages == MessagePool({"status", "ping", "pause", "resume"}, {0}, {}, {None})

\* The objects when start() has connected the message bus and built the
\* sink: no engine yet.
WorldBeforeStart(c) ==
    [InitialWorld(c, "processor") EXCEPT
        !.proc.pipeline = None, !.proc.is_running = FALSE,
        !.proc.pipeline_started = FALSE, !.held = None,
        !.engines = [id \in EngineIds |-> FreeEngine]]

InitStart ==
    /\ w \in { WorldBeforeStart(c) : c \in SpecConfigs }
    /\ last = NoLast
    /\ pub = <<>>
    /\ sk = SinkIdle
    /\ \E enabled \in BOOLEAN :
         th = ThreadsIdle @@ [spc |-> "init", enabled |-> enabled, net |-> "off",
                              subscribed |-> FALSE, connected |-> FALSE,
                              control_plane |-> FALSE, handled |-> 0]

\* self.pipeline = InferencePipeline.init(...); then the control plane if
\* it is enabled.
StartInitPipeline ==
    /\ th.spc = "init"
    /\ w' = [Called(w, "init") EXCEPT !.proc.pipeline = Some(0), !.engines[0] = EngineInit(w)]
    /\ th' = [th EXCEPT !.spc = IF th.enabled THEN "connect" ELSE "metrics"]
    /\ UNCHANGED <<last, pub, sk>>

\* MQTTControlPlane(...), _setup_control_commands(), and connect() up to
\* loop_start(); client.connect raising makes connect() return False.
StartConnect ==
    /\ th.spc = "connect"
    /\ \E reached \in BOOLEAN :
         th' = [th EXCEPT !.control_plane = TRUE,
                          !.net = IF reached THEN "connecting" ELSE "off",
                          !.spc = IF reached THEN "wait" ELSE "drop"]
    /\ UNCHANGED <<w, last, pub, sk>>

\* _on_connect up to _connected.set(): with rc = 0 it subscribes, with
\* another rc it logs.
OnConnect ==
    /\ th.net = "connecting"
    /\ \E rc \in {0, 5} :
         th' = IF rc = 0
               THEN [th EXCEPT !.net = "on_connect", !.subscribed = TRUE, !.connected = TRUE]
               ELSE [th EXCEPT !.net = "refused"]
    /\ UNCHANGED <<w, last, pub, sk>>

\* ... and its publish_status("connected").
OnConnectPublish ==
    /\ th.net = "on_connect"
    /\ w' = publish_status(w, "connected", None)
    /\ th' = [th EXCEPT !.net = "connected"]
    /\ UNCHANGED <<last, pub, sk>>

\* _connected.wait(timeout) returns: True when the Event is set, False when
\* the timeout passed first.
StartWaitReturns ==
    /\ th.spc = "wait"
    /\ th' = [th EXCEPT !.spc = IF th.connected THEN "announce" ELSE "drop"]
    /\ UNCHANGED <<w, last, pub, sk>>

\* connect() returned True: publish_status("starting", ...).
StartAnnounce ==
    /\ th.spc = "announce"
    /\ w' = publish_status(w, "starting", None)
    /\ th' = [th EXCEPT !.spc = "metrics"]
    /\ UNCHANGED <<last, pub, sk>>

\* connect() returned False: a warning, self.control_plane = None.
StartDrop ==
    /\ th.spc = "drop"
    /\ th' = [th EXCEPT !.control_plane = FALSE, !.spc = "metrics"]
    /\ UNCHANGED <<w, last, pub, sk>>

\* The metrics reporter, then self.pipeline.start(...) is called.
StartEngineCalled ==
    /\ th.spc = "metrics"
    /\ w' = Called(w, "start")
    /\ th' = [th EXCEPT !.spc = "in_start"]
    /\ UNCHANGED <<last, pub, sk>>

\* pipeline.start() returns, then _pipeline_started and is_running are set;
\* or it raises and start() re-raises.
StartEngineReturns ==
    /\ th.spc = "in_start"
    /\ \E eng \in {"ok", "start"} :
         IF eng = "ok"
         THEN /\ w' = [w EXCEPT !.engines[0].state = "started",
                                !.proc.pipeline_started = TRUE,
                                !.proc.is_running = TRUE]
              /\ th' = [th EXCEPT !.spc = "started"]
         ELSE /\ w' = w
              /\ th' = [th EXCEPT !.spc = "raised"]
    /\ UNCHANGED <<last, pub, sk>>

\* A command is delivered to the subscribed control plane the processor
\* holds and _on_message handles it on the loop thread.
StartCommand ==
    /\ th.subscribed /\ th.control_plane /\ th.net = "connected"
    /\ th.handled < MaxStartCommands
    /\ \E msg \in StartMessages :
         /\ w' = _on_message(w, msg, "ok").w
         /\ last' = [outcome |-> _on_message(w, msg, "ok").outcome]
    /\ th' = [th EXCEPT !.handled = @ + 1]
    /\ UNCHANGED <<pub, sk>>

NextStart ==
    \/ StartInitPipeline \/ StartConnect \/ OnConnect \/ OnConnectPublish
    \/ StartWaitReturns \/ StartAnnounce \/ StartDrop
    \/ StartEngineCalled \/ StartEngineReturns \/ StartCommand

SpecStart == InitStart /\ [][NextStart]_vars

\* The control plane is subscribed and has announced "starting".
ControlPlaneUp ==
    /\ th.subscribed
    /\ \E k \in 1..Len(w.cp.statuses) : w.cp.statuses[k].status = "starting"

\* C22: in every startup with the control plane enabled, the subscription
\* to the command topic and the publication of "starting" are both done
\* before the engine's start() is invoked, so that a command that arrives
\* while start() is blocked reaches the instance.
C22_ControlPlaneUpBeforeEngineStart ==
    (th.enabled /\ th.spc \in {"in_start", "started", "raised"}) => ControlPlaneUp

\* ------------------------------------------------------------- SpecTwo
\* Two instances subscribed to the same command topic: the broker hands
\* every message to both, and each handles its copy on its own control-plane
\* thread. w is the first instance, th.other the second; they share nothing.
\* Renames move the ids around.
TwoCommands == {"status", "ping", "pause", "resume", "stop", "rename_instance"}

TwoMessages ==
    MessagePool(TwoCommands, {0}, TwoCommands \ {"rename_instance"},
                {Some(<<"P">>), Some(<<"Q">>)})

\* The second instance: the same program started with the other id.
OtherWorld(x) == [x EXCEPT !.cfg.instance_id = "Q", !.cp.instance_id = "Q"]

InitTwo ==
    /\ w \in { InitialWorld(c, wiring) : c \in SpecConfigs, wiring \in Wirings }
    /\ last = NoLast
    /\ pub = <<>>
    /\ sk = SinkIdle
    /\ \E x \in { InitialWorld(c, wiring) : c \in SpecConfigs, wiring \in Wirings } :
         th = ThreadsIdle @@ [other |-> OtherWorld(x), other_last |-> NoLast]

\* One message on the command topic: _on_message runs in both instances.
TwoDeliver ==
    \E msg \in TwoMessages :
        /\ w' = Collect(ClearLog(_on_message(w, msg, "ok").w))
        /\ last' = [outcome |-> _on_message(w, msg, "ok").outcome]
        /\ th' = [th EXCEPT
                    !.other = Collect(ClearLog(_on_message(th.other, msg, "ok").w)),
                    !.other_last = [outcome |-> _on_message(th.other, msg, "ok").outcome]]
        /\ UNCHANGED <<pub, sk>>

NextTwo == TwoDeliver

SpecTwo == InitTwo /\ [][NextTwo]_vars

\* A message with no list of targets, an empty one, or ["*"].
IsBroadcast(msg) ==
    /\ msg.json_ok
    /\ msg.target_instances \in {None, Some(<<>>), Some(<<"*">>)}

\* r is what the instance with id "own" did with a message: "received" then
\* "completed" on its own ack topic, statuses on its own status topic only
\* (at least one when "reports"), nothing on the topics of "other".
ProcessedOnOwnTopics(r, own, other, reports) ==
    /\ r.outcome = "completed"
    /\ AckStatuses(r.w) = <<"received", "completed">>
    /\ \A k \in 1..Len(r.w.cp.acks) :
          r.w.cp.acks[k].topic = own /\ r.w.cp.acks[k].topic # other
    /\ \A k \in 1..Len(r.w.cp.statuses) :
          /\ r.w.cp.statuses[k].topic = own /\ r.w.cp.statuses[k].topic # other
          /\ r.w.cp.statuses[k].retain
    /\ reports => Len(r.w.cp.statuses) >= 1

InitStop ==
    /\ w \in { InitialWorld(c, "processor") : c \in SpecConfigs }
    /\ last = NoLast
    /\ pub = <<>>
    /\ sk = SinkIdle
    /\ th = ThreadsIdle @@ [terminated |-> FALSE, signalled |-> FALSE, cleanups |-> 0]

\* The loop thread still takes messages: loop_stop() has not been called.
LoopRunning == th.pc \notin {"loop_stop", "done"}

\* A stop command arrives: "received", then _handle_stop reads self.pipeline.
StopBegin ==
    /\ th.rpc = "idle" /\ LoopRunning
    /\ ~th.stopped
    /\ w' = _publish_ack(w, "stop", "received", "")
    /\ th' = [th EXCEPT !.stopped = TRUE,
                        !.rpc = IF w.proc.pipeline # None THEN "stop_terminate"
                                ELSE "stop_ack"]
    /\ UNCHANGED <<last, pub, sk>>

\* self.terminate()
StopTerminate ==
    /\ th.rpc = "stop_terminate"
    /\ w' = terminate(w)
    /\ th' = [th EXCEPT !.rpc = "stop_publish", !.terminated = TRUE]
    /\ UNCHANGED <<last, pub, sk>>

\* self.control_plane.publish_status("stopped")
StopPublish ==
    /\ th.rpc = "stop_publish"
    /\ w' = publish_status(w, "stopped", None)
    /\ th' = Ctl("stop_ack")
    /\ UNCHANGED <<last, pub, sk>>

\* _handle_stop returns; _on_message publishes "completed".
StopAck ==
    /\ th.rpc = "stop_ack"
    /\ w' = _publish_ack(w, "stop", "completed", "")
    /\ last' = [outcome |-> "completed"]
    /\ th' = Ctl("idle")
    /\ UNCHANGED <<pub, sk>>

\* _signal_handler: terminate(), on the main thread wherever it is.
Signal ==
    /\ ~th.signalled
    /\ th.pc \notin {"done", "crashed"}
    /\ w' = terminate(w)
    /\ th' = [th EXCEPT !.signalled = TRUE, !.terminated = TRUE]
    /\ UNCHANGED <<last, pub, sk>>

\* The cleanup after the loop, up to control_plane.disconnect()'s
\* publish_status("disconnected").
CleanupDisconnect ==
    /\ th.pc = "cleanup"
    /\ w' = publish_status(w, "disconnected", None)
    /\ th' = [th EXCEPT !.pc = "loop_stop", !.cleanups = @ + 1]
    /\ UNCHANGED <<last, pub, sk>>

\* client.loop_stop() joins the loop thread, which ends once the callback
\* it is in has returned; client.disconnect(); join() returns.
CleanupLoopStop ==
    /\ th.pc = "loop_stop"
    /\ th.rpc = "idle"
    /\ th' = Main("done")
    /\ UNCHANGED <<w, last, pub, sk>>

\* A restart command arrives while the loop thread runs.
StopRestartBegin == LoopRunning /\ RestartBegin

MainToCleanup ==
    \/ MainJoinReturns \/ MainReadFlag \/ MainReadPipeline \/ MainComparePipeline
    \/ MainWaitEnds \/ MainTop \/ MainTop2 \/ MainTake \/ MainKeepAliveEnds
    \/ CleanupDisconnect \/ CleanupLoopStop

ControlSteps ==
    \/ StopTerminate \/ StopPublish \/ StopAck
    \/ RestartTerminate \/ RestartUnref \/ RestartNotRunning \/ RestartCreate
    \/ RestartStart \/ RestartPublishRunning \/ RestartExcept \/ RestartFinally

NextStop == MainToCleanup \/ ControlSteps \/ StopBegin \/ StopRestartBegin \/ Signal

SpecStop == InitStop /\ [][NextStop]_vars

\* Both threads keep running; commands and signals need not come.
SpecStopFair == SpecStop /\ WF_vars(MainToCleanup) /\ WF_vars(ControlSteps)

\* names ends with "disconnected", published once, and has "stopped" before.
StoppedThenDisconnected(names) ==
    /\ names # <<>>
    /\ names[Len(names)] = "disconnected"
    /\ \A k \in 1..(Len(names) - 1) : names[k] # "disconnected"
    /\ \E k \in 1..(Len(names) - 1) : names[k] = "stopped"

\* C24: after a stop command followed by the shutdown cleanup, with no
\* restart and no signal in between, and however the stop handler on the
\* control-plane thread and the cleanup on the main thread interleave, the
\* last status published on the instance's status topic is "disconnected";
\* the handler's "stopped" precedes it and no status follows it.
C24_DisconnectedIsLast ==
    (/\ th.pc = "done" /\ th.stopped /\ th.rpc = "idle"
     /\ th.during = "none" /\ ~th.signalled)
        => StoppedThenDisconnected(StatusNames(w))

\* C25: whenever terminate() has been called (by a signal or by the stop
\* command), also while a restart is in progress on the control-plane
\* thread, the join loop eventually exits and the shutdown cleanup runs,
\* once: join() returns.
C25_TerminateEndsJoin ==
    th.terminated ~> (th.pc = "done" /\ th.cleanups = 1)

\* ------------------------------------------------------------- engine state machine (Spec)
\* is_paused of whoever owns the engine.
PausedFlag(x) == IF x.wiring = "processor" THEN x.proc.is_paused ELSE x.pm.is_paused

\* The state of the engine as its owner holds it: "absent" with no engine
\* reference, "terminated" once the engine referred to has been terminated,
\* "paused" under is_paused, else "created" or "started".
EngineStateOf(x) ==
    IF CurrentEngine(x) = None THEN "absent"
    ELSE IF x.engines[The(CurrentEngine(x))].state = "terminated" THEN "terminated"
    ELSE IF PausedFlag(x) THEN "paused"
    ELSE IF x.engines[The(CurrentEngine(x))].state = "created" THEN "created"
    ELSE "started"

\* The transitions each command may make; terminate ends in "terminated",
\* or in "absent" when the owner also drops its reference.
AllowedTransitions(command) ==
    CASE command = "pause" -> { <<"started", "paused">> }
      [] command = "resume" -> { <<"paused", "started">> }
      [] command = "stop" -> { <<s, t>> : s \in {"created", "started", "paused", "terminated"},
                                         t \in {"terminated", "absent"} }

\* The sink gate, the engine reference, is_paused and the engine objects.
EngineView(x) ==
    [ gate |-> x.sink.running, pipeline |-> CurrentEngine(x),
      is_paused |-> PausedFlag(x), engines |-> x.engines ]

\* The command took x to y along one of its transitions, or left the engine
\* as it was.
AllowedOrUnchanged(x, y, command) ==
    \/ <<EngineStateOf(x), EngineStateOf(y)>> \in AllowedTransitions(command)
    \/ EngineView(y) = EngineView(x)

\* C26: the engine state changes only along the allowed transitions: pause
\* from started, resume from paused, terminate from any state but absent;
\* pause when the engine is absent or already paused and resume when it is
\* not paused leave the sink gate, the engine reference and is_paused
\* unchanged. (create and start are reached through restart only, which is
\* allowed from any state.)
C26_EngineTransitions ==
    \A msg \in Messages :
        (Targeted(msg) /\ Lower(msg.command) \in {"pause", "resume", "stop"})
            => AllowedOrUnchanged(w, _on_message(w, msg, "ok").w, Lower(msg.command))

\* ------------------------------------------------------------- SpecBatch
\* MQTTDetectionSink.__call__ with what can go wrong in one turn of its
\* loop. A (prediction, frame) pair of a batch is one of
\*   "no_frame", "no_pred"  a None member
\*   "bad_pred"   a prediction _create_event raises on (a detection
\*                without its "class" key)
\*   "rc_error"   a good pair for which client.publish returns a code that
\*                is not MQTT_ERR_SUCCESS
\*   "ok"         a good pair, published
\* with the source_id of its frame (read only when both members are there);
\* its frame_id is its place in the batch.
PairKinds == {"no_frame", "no_pred", "bad_pred", "rc_error", "ok"}

FaultyPairs ==
    [ kind : {"no_frame", "no_pred"}, source_id : {0} ]
    \cup [ kind : PairKinds \ {"no_frame", "no_pred"}, source_id : 0..(MaxInitStreams - 1) ]

FaultyBatches == SeqsUpTo(FaultyPairs, MaxBatch) \ {<<>>}

\* What one sink call did: the client.publish calls it made, the warnings
\* and errors it logged, and whether an exception left it.
SinkResult(published, warnings, errors, raised) ==
    [pub |-> published, warnings |-> warnings, errors |-> errors, raised |-> raised]

NothingDone == SinkResult(<<>>, 0, 0, FALSE)

\* client.publish(topic, payload, qos=0): retain is left at its default.
Publish(x, pair, frame_id) ==
    [ topic |-> topic_for_source(_get_actual_source_id(x, pair.source_id), TopicPrefix),
      payload |-> _create_event(x, _get_actual_source_id(x, pair.source_id)),
      frame_id |-> frame_id,
      frame_source_id |-> pair.source_id,
      qos |-> 0,
      retain |-> FALSE,
      rc |-> IF pair.kind = "rc_error" THEN 4 ELSE 0 ]

\* A turn of the loop with no try around it: what _create_event raises
\* leaves the call.
sink_frame_uncaught(x, pair, frame_id) ==
    IF pair.kind \in {"no_frame", "no_pred"} THEN NothingDone
    ELSE IF pair.kind = "bad_pred" THEN SinkResult(<<>>, 0, 0, TRUE)
    ELSE SinkResult(<<Publish(x, pair, frame_id)>>,
                    IF pair.kind = "rc_error" THEN 1 ELSE 0, 0, FALSE)

\* One turn of the loop of __call__: "continue" on a None member; in the
\* try the event is built and published, and a warning logged when rc is
\* not success; the except logs an error.
sink_frame(x, pair, frame_id) ==
    IF pair.kind \in {"no_frame", "no_pred"} THEN NothingDone
    ELSE IF pair.kind = "bad_pred" THEN SinkResult(<<>>, 0, 1, FALSE)
    ELSE SinkResult(<<Publish(x, pair, frame_id)>>,
                    IF pair.kind = "rc_error" THEN 1 ELSE 0, 0, FALSE)

\* b after a: the loop goes on unless an exception left the call.
Then(a, b) ==
    IF a.raised THEN a
    ELSE SinkResult(a.pub \o b.pub, a.warnings + b.warnings, a.errors + b.errors, b.raised)

\* A loop that takes the pairs from the last one to the first.
RECURSIVE sink_loop_backwards(_, _, _)
sink_loop_backwards(x, batch, k) ==
    IF k > Len(batch) THEN NothingDone
    ELSE Then(sink_loop_backwards(x, batch, k + 1), sink_frame(x, batch[k], k))

\* for pred, frame in zip(predictions, video_frames), from the k-th pair on.
RECURSIVE sink_loop(_, _, _)
sink_loop(x, batch, k) ==
    IF k > Len(batch) THEN NothingDone
    ELSE Then(sink_frame(x, batch[k], k), sink_loop(x, batch, k + 1))

\* MQTTDetectionSink.__call__: nothing while the gate is closed.
sink_call(x, batch) ==
    IF ~x.sink.running THEN NothingDone ELSE sink_loop(x, batch, 1)

\* The configs SpecBatch starts from: MaxInitStreams streams, no mapping or
\* the one that reverses them, and each QoS a config may ask for.
QosLevels == 0..2

ReversedMapping == [k \in 1..MaxInitStreams |-> MaxInitStreams - k]

BatchConfigs ==
    { [c EXCEPT !.mqtt_qos = q] :
        c \in { x \in AcceptedConfigs :
                  /\ x.max_fps = None
                  /\ x.stream_uris = [k \in 1..MaxInitStreams |-> Uri(StreamServer, k - 1)]
                  /\ x.source_id_mapping \in {None, Some(ReversedMapping)} },
        q \in QosLevels }

\* The commands sent before the sink call.
BatchMessages ==
    { Message(TRUE, "change_model", Params({"model_id"}, Str(m)), None) : m \in {"m1", "m2"} }
    \cup { Message(TRUE, "rename_instance", Params({"new_instance_id"}, Str("Q")), None) }
    \cup { Message(TRUE, "restart", NoParams, None) }

\* sk.batch is the batch the engine will hand over; sk.pc is "called" once
\* the sink call on it has returned or raised, and pub, sk.warnings,
\* sk.errors and sk.raised are then what it did.
InitBatch ==
    /\ w \in { InitialWorld(c, "processor") : c \in BatchConfigs }
    /\ last = NoLast
    /\ pub = <<>>
    /\ \E batch \in FaultyBatches :
         sk = [pc |-> "idle", batch |-> batch, warnings |-> 0, errors |-> 0, raised |-> FALSE]
    /\ th = ThreadsIdle

\* A command is handled; its engine, when it recreates it, comes up or
\* fails to.
OnBatchMessage ==
    /\ sk.pc = "idle"
    /\ \E msg \in BatchMessages :
         \E eng \in EngineOutcomesFor(msg) \cap {"ok", "create"} : Deliver(msg, eng)

\* The engine thread runs the whole sink call on the batch.
BatchCallDone(r) ==
    /\ pub' = r.pub
    /\ sk' = [sk EXCEPT !.pc = "called", !.warnings = r.warnings,
                        !.errors = r.errors, !.raised = r.raised]
    /\ UNCHANGED <<w, last, th>>

BatchCall ==
    /\ Streaming(w)
    /\ sk.pc = "idle"
    /\ BatchCallDone(sink_call(w, sk.batch))

NextBatch == OnBatchMessage \/ BatchCall

SpecBatch == InitBatch /\ [][NextBatch]_vars

\* The frame_ids of the pairs of batch, from the k-th on, whose kind is in
\* kinds.
RECURSIVE FramesOfKind(_, _, _)
FramesOfKind(batch, kinds, k) ==
    IF k > Len(batch) THEN <<>>
    ELSE (IF batch[k].kind \in kinds THEN <<k>> ELSE <<>>) \o FramesOfKind(batch, kinds, k + 1)

PublishedFrames(published) == [k \in 1..Len(published) |-> published[k].frame_id]

HasFailure(batch) == \E k \in 1..Len(batch) : batch[k].kind \in {"bad_pred", "rc_error"}

\* C27: for a batch in which a pair fails (publish returns a code that is
\* not success, or building the event raises), the sink call, with the
\* gate open, returns without raising into the engine, and every other pair
\* with both members is still published.
C27_FailingPairIsSkipped ==
    (sk.pc = "called" /\ w.sink.running /\ HasFailure(sk.batch))
        => /\ ~sk.raised
           /\ PublishedFrames(pub) = FramesOfKind(sk.batch, {"rc_error", "ok"}, 1)

\* A sink call logged an error for the pair it could not build the event
\* of, and published the other one.
C27_Witness ==
    /\ sk.pc = "called" /\ ~sk.raised
    /\ sk.errors = 1
    /\ Len(sk.batch) = 2 /\ Len(pub) = 1

\* Every prediction of batch is None or one the event can be built from.
WellFormed(batch) == \A k \in 1..Len(batch) : batch[k].kind # "bad_pred"

\* published holds the frames of each source in the order of their frame_ids.
PerSourceInFrameOrder(published) ==
    \A i, j \in 1..Len(published) :
        (i < j /\ published[i].frame_source_id = published[j].frame_source_id)
            => published[i].frame_id < published[j].frame_id

\* C28: while the gate is open, a sink call publishes exactly one event for
\* each (prediction, frame) pair with both members and nothing for a pair
\* with a None member, in the order of the batch, so that the events of
\* each source are published in the frame order the engine delivered.
C28_OneEventPerPairInOrder ==
    (sk.pc = "called" /\ w.sink.running /\ WellFormed(sk.batch))
        => /\ PublishedFrames(pub) = FramesOfKind(sk.batch, PairKinds \ {"no_frame", "no_pred"}, 1)
           /\ \A k \in 1..Len(pub) :
                 pub[k].frame_source_id = sk.batch[pub[k].frame_id].source_id
           /\ PerSourceInFrameOrder(pub)

\* The call has published two frames of one source from a full batch: the
\* one the engine delivered first comes first.
C28_Witness ==
    /\ sk.pc = "called" /\ WellFormed(sk.batch)
    /\ Len(sk.batch) = MaxBatch /\ Len(pub) = 2
    /\ pub[1].frame_source_id = pub[2].frame_source_id
    /\ pub[1].frame_id < pub[2].frame_id

\* C29: every detection event the sink publishes carries the model_id and
\* the instance_id the config holds when it is published: after a
\* change_model, or the rollback of a failed one, the next event carries the
\* config's value; the sink is the one built at start.
C29_EventCarriesConfigModel ==
    sk.pc = "called" =>
        \A k \in 1..Len(pub) :
            /\ pub[k].payload.model_id = w.cfg.model_id
            /\ pub[k].payload.instance_id = w.cfg.instance_id

\* An event was published after a change_model to another model completed.
C29_Witness ==
    /\ sk.pc = "called" /\ pub # <<>>
    /\ last.outcome = "completed"
    /\ w.cfg.model_id = "m2"
    /\ pub[1].payload.model_id = "m2"

\* C30: every detection event is published to
\* {detection_topic_prefix}/{actual_source_id}, with the QoS the config asks
\* for in mqtt_qos, whichever of 0, 1 and 2 that is, and with retain false.
C30_TopicQosRetain ==
    sk.pc = "called" =>
        \A k \in 1..Len(pub) :
            /\ pub[k].topic = <<TopicPrefix, pub[k].payload.source_id>>
            /\ pub[k].qos = w.cfg.mqtt_qos
            /\ ~pub[k].retain

\* ----------------------------------------------------------- SpecMetrics
\* One MetricsReporter, its worker thread and the thread that calls start()
\* and stop() on it.
\*   th.interval     config.metrics_reporting_interval
\*   th.watchdog     the reporter was built with a watchdog
\*   th.mqtt_client  the reporter was built with a bus client
\*   th._thread      self._thread is set
\*   th._stop_event  self._stop_event is set
\*   th.mpc          where the worker is: "none" (no worker), "wait" (in
\*                   _stop_event.wait), "sample", "publish", "exited"
\*   th.cpc          where the caller is: "new", "started", "joining", "stopped"
\*   th.samples, th.errors, th.published   what the worker did so far
\*   th.stop_at      where the worker was when stop() set the event
MaxSamples == 2

SampleOutcomes == {"raised", "zero", "data"}

InitMetrics ==
    /\ w \in { InitialWorld(c, "processor") : c \in SpecConfigs }
    /\ last = NoLast
    /\ pub = <<>>
    /\ sk = SinkIdle
    /\ \E i \in {0, 10}, wd \in BOOLEAN, mc \in BOOLEAN :
         th = ThreadsIdle @@ [interval |-> i, watchdog |-> wd, mqtt_client |-> mc,
                              _thread |-> FALSE, _stop_event |-> FALSE,
                              mpc |-> "none", cpc |-> "new", samples |-> 0,
                              errors |-> 0, published |-> 0, stop_at |-> "none"]

\* Where the worker goes when the body of the loop raised: the except
\* clause logs, and the while condition is evaluated again.
reporting_loop_uncaught(outcome) == IF outcome = "raised" THEN "exited" ELSE "wait"

\* Where the worker goes once the body of the loop is over, whether it
\* returned or raised.
_reporting_loop_body_done(outcome) == "wait"

\* start(): no thread when the interval is not positive or there is no
\* watchdog.
ReporterStart ==
    /\ th.cpc = "new"
    /\ th' = IF th.interval <= 0 \/ ~th.watchdog
             THEN [th EXCEPT !.cpc = "started"]
             ELSE [th EXCEPT !.cpc = "started", !._thread = TRUE, !.mpc = "wait"]
    /\ UNCHANGED <<w, last, pub, sk>>

\* _stop_event.wait(timeout=interval) returns False: the interval went by
\* and the event is not set.
WorkerTimeout ==
    /\ th.mpc = "wait" /\ ~th._stop_event
    /\ th.samples < MaxSamples
    /\ th' = [th EXCEPT !.mpc = "sample", !.samples = @ + 1]
    /\ UNCHANGED <<w, last, pub, sk>>

\* _stop_event.wait returns True: the loop is left and the thread ends.
WorkerStopped ==
    /\ th.mpc = "wait" /\ th._stop_event
    /\ th' = [th EXCEPT !.mpc = "exited"]
    /\ UNCHANGED <<w, last, pub, sk>>

\* _get_lightweight_metrics(): the watchdog's report raises, or has no
\* throughput yet, or has data to publish.
WorkerSample ==
    /\ th.mpc = "sample"
    /\ \E outcome \in SampleOutcomes :
         th' = CASE outcome = "raised" ->
                      [th EXCEPT !.errors = @ + 1,
                                 !.mpc = _reporting_loop_body_done(outcome)]
                 [] outcome = "zero" ->
                      [th EXCEPT !.mpc = _reporting_loop_body_done(outcome)]
                 [] outcome = "data" -> [th EXCEPT !.mpc = "publish"]
    /\ UNCHANGED <<w, last, pub, sk>>

\* _publish_metrics(): nothing without a client; else the publish returns
\* or raises.
WorkerPublish ==
    /\ th.mpc = "publish"
    /\ \E outcome \in {"ok", "raised"} :
         th' = IF ~th.mqtt_client
               THEN [th EXCEPT !.mpc = _reporting_loop_body_done("ok")]
               ELSE IF outcome = "ok"
               THEN [th EXCEPT !.published = @ + 1,
                               !.mpc = _reporting_loop_body_done(outcome)]
               ELSE [th EXCEPT !.errors = @ + 1,
                               !.mpc = _reporting_loop_body_done(outcome)]
    /\ UNCHANGED <<w, last, pub, sk>>

\* stop(): with a thread, the event is set and the thread joined.
ReporterStop ==
    /\ th.cpc = "started"
    /\ th' = IF th._thread
             THEN [th EXCEPT !._stop_event = TRUE, !.cpc = "joining",
                             !.stop_at = th.mpc]
             ELSE [th EXCEPT !.cpc = "stopped"]
    /\ UNCHANGED <<w, last, pub, sk>>

\* join(timeout=5) returns: the worker ended, or five seconds went by.
StopJoinReturns ==
    /\ th.cpc = "joining"
    /\ th' = [th EXCEPT !.cpc = "stopped"]
    /\ UNCHANGED <<w, last, pub, sk>>

WorkerSteps == WorkerTimeout \/ WorkerStopped \/ WorkerSample \/ WorkerPublish

NextMetrics ==
    \/ ReporterStart \/ ReporterStop \/ StopJoinReturns
    \/ WorkerTimeout \/ WorkerStopped \/ WorkerSample \/ WorkerPublish

SpecMetrics == InitMetrics /\ [][NextMetrics]_vars

\* The worker thread is scheduled; a report and a publish return or raise.
SpecMetricsFair == SpecMetrics /\ WF_vars(WorkerSteps)

\* C31: once stop() has set the event on a started reporter, the worker
\* leaves its loop, from the timed wait as from the middle of a sample or a
\* publish; and the worker is out of its loop only when the event is set,
\* so no exception raised while sampling or publishing ended it.
C31_StopEndsWorker ==
    /\ [](th.mpc = "exited" => th._stop_event)
    /\ (th._stop_event ~> th.mpc = "exited")

\* The worker logged an error, was in the middle of a sample when stop()
\* set the event, and has left its loop.
C31_Witness ==
    /\ th.mpc = "exited"
    /\ th.errors > 0
    /\ th.stop_at = "sample"

\* ------------------------------------------------------------- SpecCache
\* One DetectionCache used from one thread: update, get and clear in any
\* order while the clock advances.
\*   sk._cache    the dict: per source nothing or the event and the time it
\*                was stored
\*   sk._ttl      the time-to-live
\*   sk.now       what datetime.now() returns
\*   sk.written   per source, the event of the most recent update and its
\*                time, or nothing after a clear or before any update (kept
\*                for the property only: no operation reads it)
\*   last         the operation called last, its argument and its result
MaxClock == 3

CacheFrames == 1..2

CacheTtls == {1, 2}

CacheEvent(source_id, frame_id) == [source_id |-> source_id, frame_id |-> frame_id]

EmptyCache == [s \in SourceIds |-> None]

\* The expiry test of get(), turned round: an entry as old as the ttl is
\* thrown away.
expired_at_ttl(now, timestamp, ttl) == now - timestamp >= ttl

\* datetime.now() - timestamp > self._ttl
expired(now, timestamp, ttl) == now - timestamp > ttl

\* update(event): the entry of event.source_id is replaced.
update(cache, event, now) ==
    [cache EXCEPT ![event.source_id] = Some([event |-> event, timestamp |-> now])]

\* get(source_id): the dict afterwards and the value returned.
get(cache, source_id, now, ttl) ==
    IF cache[source_id] = None
    THEN [cache |-> cache, result |-> None]
    ELSE IF expired(now, The(cache[source_id]).timestamp, ttl)
    THEN [cache |-> [cache EXCEPT ![source_id] = None], result |-> None]
    ELSE [cache |-> cache, result |-> Some(The(cache[source_id]).event)]

\* clear()
clear(cache) == [s \in DOMAIN cache |-> None]

\* size()
size(cache) == Cardinality({s \in DOMAIN cache : cache[s] # None})

InitCache ==
    /\ w \in { InitialWorld(c, "processor") : c \in SpecConfigs }
    /\ last = [outcome |-> "none", source_id |-> 0, result |-> None]
    /\ pub = <<>>
    /\ th = ThreadsIdle
    /\ \E ttl \in CacheTtls :
         sk = SinkIdle @@ [_cache |-> EmptyCache, _ttl |-> ttl, now |-> 0,
                           written |-> EmptyCache]

CacheUpdate ==
    /\ \E s \in SourceIds, f \in CacheFrames :
         /\ sk' = [sk EXCEPT !._cache = update(@, CacheEvent(s, f), sk.now),
                             !.written = update(@, CacheEvent(s, f), sk.now)]
         /\ last' = [outcome |-> "update", source_id |-> s, result |-> None]
    /\ UNCHANGED <<w, pub, th>>

CacheGet ==
    /\ \E s \in SourceIds :
         /\ sk' = [sk EXCEPT !._cache = get(sk._cache, s, sk.now, sk._ttl).cache]
         /\ last' = [outcome |-> "get", source_id |-> s,
                     result |-> get(sk._cache, s, sk.now, sk._ttl).result]
    /\ UNCHANGED <<w, pub, th>>

CacheClear ==
    /\ sk' = [sk EXCEPT !._cache = clear(@), !.written = clear(@)]
    /\ last' = [outcome |-> "clear", source_id |-> 0, result |-> None]
    /\ UNCHANGED <<w, pub, th>>

\* Time goes by.
CacheTick ==
    /\ sk.now < MaxClock
    /\ sk' = [sk EXCEPT !.now = @ + 1]
    /\ last' = [outcome |-> "tick", source_id |-> 0, result |-> None]
    /\ UNCHANGED <<w, pub, th>>

NextCache == CacheUpdate \/ CacheGet \/ CacheClear \/ CacheTick

SpecCache == InitCache /\ [][NextCache]_vars

\* The most recent update for s was not followed by a clear and is no
\* older than the ttl.
Fresh(s) ==
    /\ sk.written[s] # None
    /\ sk.now - The(sk.written[s]).timestamp <= sk._ttl

\* What get(s) has just returned is right, and a None left no entry for s.
GetIsRight ==
    last.outcome = "get" =>
        IF Fresh(last.source_id)
        THEN last.result = Some(The(sk.written[last.source_id]).event)
        ELSE last.result = None /\ sk._cache[last.source_id] = None

\* update(s) and get(s) leave the entries of the other sources alone.
OthersUntouched ==
    \A s \in SourceIds :
        (last'.outcome \in {"update", "get"} /\ last'.source_id # s)
            => sk'._cache[s] = sk._cache[s]

\* C32: after any sequence of update, get and clear with the clock
\* advancing in between, get(s) returns the event of the most recent update
\* for s iff that update is no older than the ttl and no clear followed it;
\* otherwise it returns None and no entry for s is left; the entries of the
\* other sources are the same before and after update(s) and get(s).
C32_GetReturnsFreshEvent == []GetIsRight /\ [][OthersUntouched]_vars

\* get(s) has just returned None for a source whose most recent event
\* outlived the ttl, while another source's entry is still there.
C32_Witness ==
    /\ last.outcome = "get" /\ last.result = None
    /\ sk.written[last.source_id] # None
    /\ The(sk.written[last.source_id]).event.frame_id = 2
    /\ \E s \in SourceIds : s # last.source_id /\ sk._cache[s] # None

\* ------------------------------------------------------ SpecCacheThreads
\* One DetectionCache shared by one writer thread per source, which calls
\* update for the frames of its source in order, and one reader thread per
\* source, which calls get. Every method body runs under self._lock; a get
\* is run in two steps, the lookup with the expiry test and the del.
\*   th.lock      the thread holding self._lock, or "free"
\*   th.wpc[s]    writer of s: "idle", "locked" or "done"
\*   th.wn[s]     the frames the writer of s has stored
\*   th.gpc[s]    reader of s: "idle", "locked" or "del"
\*   th.gets[s]   the get calls the reader of s has finished
\*   last         the get call that returned last: the source asked for and
\*                what was returned
MaxGets == 2

\* The sources written and read: two of each kind of thread.
CacheThreads == {0, 1}

LastFrame == 2

\* No lock: every thread enters at once.
lock_ignored(t) == TRUE

\* with self._lock: the lock can be taken.
lock_free(t) == t.lock = "free"

InitCacheThreads ==
    /\ w \in { InitialWorld(c, "processor") : c \in SpecConfigs }
    /\ last = [outcome |-> "none", source_id |-> 0, result |-> None]
    /\ pub = <<>>
    /\ \E ttl \in CacheTtls :
         sk = SinkIdle @@ [_cache |-> [s \in CacheThreads |-> None], _ttl |-> ttl,
                           now |-> 0, written |-> [s \in CacheThreads |-> None]]
    /\ th = ThreadsIdle @@ [lock |-> "free",
                            wpc |-> [s \in CacheThreads |-> "idle"],
                            wn |-> [s \in CacheThreads |-> 0],
                            gpc |-> [s \in CacheThreads |-> "idle"],
                            gets |-> [s \in CacheThreads |-> 0]]

\* update(): the writer of s enters the with block.
WriterAcquire ==
    /\ \E s \in CacheThreads :
         /\ th.wpc[s] = "idle" /\ lock_free(th)
         /\ th' = [th EXCEPT !.lock = "writer", !.wpc[s] = "locked"]
    /\ UNCHANGED <<w, last, pub, sk>>

\* update(): the entry is stored and the with block left.
WriterStore ==
    /\ \E s \in CacheThreads :
         /\ th.wpc[s] = "locked"
         /\ sk' = [sk EXCEPT
                     !._cache = update(@, CacheEvent(s, th.wn[s] + 1), sk.now),
                     !.written = update(@, CacheEvent(s, th.wn[s] + 1), sk.now)]
         /\ th' = [th EXCEPT !.lock = "free", !.wn[s] = @ + 1,
                             !.wpc[s] = IF th.wn[s] + 1 = LastFrame
                                        THEN "done" ELSE "idle"]
    /\ UNCHANGED <<w, last, pub>>

\* get(): the reader of s enters the with block.
ReaderAcquire ==
    /\ \E s \in CacheThreads :
         /\ th.gpc[s] = "idle" /\ th.gets[s] < MaxGets /\ lock_free(th)
         /\ th' = [th EXCEPT !.lock = "reader", !.gpc[s] = "locked"]
    /\ UNCHANGED <<w, last, pub, sk>>

\* get(): the entry is looked up and its age tested; get returns unless the
\* entry is too old.
ReaderLookup ==
    /\ \E s \in CacheThreads :
         /\ th.gpc[s] = "locked"
         /\ IF sk._cache[s] # None /\ get(sk._cache, s, sk.now, sk._ttl).result = None
            THEN /\ th' = [th EXCEPT !.gpc[s] = "del"]
                 /\ UNCHANGED last
            ELSE /\ th' = [th EXCEPT !.lock = "free", !.gpc[s] = "idle",
                                     !.gets[s] = @ + 1]
                 /\ last' = [outcome |-> "get", source_id |-> s,
                             result |-> get(sk._cache, s, sk.now, sk._ttl).result]
    /\ UNCHANGED <<w, pub, sk>>

\* get(): del self._cache[source_id]; return None.
ReaderDelete ==
    /\ \E s \in CacheThreads :
         /\ th.gpc[s] = "del"
         /\ sk' = [sk EXCEPT !._cache[s] = None]
         /\ th' = [th EXCEPT !.lock = "free", !.gpc[s] = "idle",
                             !.gets[s] = @ + 1]
         /\ last' = [outcome |-> "get", source_id |-> s, result |-> None]
    /\ UNCHANGED <<w, pub>>

\* Time goes by.
ThreadsTick ==
    /\ sk.now < MaxClock
    /\ sk' = [sk EXCEPT !.now = @ + 1]
    /\ UNCHANGED <<w, last, pub, th>>

NextCacheThreads ==
    \/ WriterAcquire \/ WriterStore \/ ReaderAcquire \/ ReaderLookup
    \/ ReaderDelete \/ ThreadsTick

SpecCacheThreads == InitCacheThreads /\ [][NextCacheThreads]_vars

WritersDone == \A s \in CacheThreads : th.wpc[s] = "done"

HoldsLast(s) ==
    /\ sk._cache[s] # None
    /\ The(sk._cache[s]).event = CacheEvent(s, LastFrame)

GetsOwnSource ==
    last.outcome = "get" =>
        (last.result = None \/ The(last.result).source_id = last.source_id)

\* C33 as stated: once every writer has finished, the cache holds one
\* entry per writer, each the last event written for its source, and every
\* get(s) returned None or an event of source s.
C33_NoUpdateLost ==
    /\ WritersDone => (size(sk._cache) = Cardinality(CacheThreads)
                         /\ \A s \in CacheThreads : HoldsLast(s))
    /\ GetsOwnSource

\* C33, with the entries a get found too old: at any time the entry of a
\* source is the event written last for it, with the time it was written,
\* or there is none because nothing was written yet or a get found the
\* event written last older than the ttl; once every writer has finished,
\* every source with an entry holds its last frame; every get(s) returned
\* None or an event of source s.
C33_NoUpdateLostUntilExpiry ==
    /\ \A s \in CacheThreads :
         \/ sk._cache[s] = sk.written[s]
         \/ /\ sk._cache[s] = None
            /\ sk.now - The(sk.written[s]).timestamp > sk._ttl
    /\ WritersDone => \A s \in CacheThreads : sk._cache[s] # None => HoldsLast(s)
    /\ GetsOwnSource

\* Every writer has finished, one source that was read holds its last
\* frame, and a get has just found the entry of another too old.
C33_Witness ==
    /\ WritersDone
    /\ \E s \in CacheThreads : HoldsLast(s) /\ th.gets[s] > 0
    /\ \E s \in CacheThreads : sk._cache[s] = None
    /\ last.outcome = "get" /\ last.result = None

\* ------------------------------------------------------------- SpecTopic
\* topic_for_source and parse_source_id_from_topic on text. A text is the
\* sequence of its characters; the segments of a topic are what
\* topic.split("/") returns.
\*   sk.input    what the functions are called with: a source id and a
\*               prefix for topic_for_source, or a topic as it stands
\*   sk.topic    the topic built or given
\*   sk.parsed   what parse_source_id_from_topic returned for sk.topic
MaxTopicId == 11

MaxPrefixLen == 3

MaxTopicLen == 5

Digits == <<"0", "1", "2", "3", "4", "5", "6", "7", "8", "9">>

IsDigit(ch) == \E d \in 1..Len(Digits) : Digits[d] = ch

DigitValue(ch) == (CHOOSE d \in 1..Len(Digits) : Digits[d] = ch) - 1

\* str(n) for n >= 0, as the f-string formats it.
RECURSIVE str(_)
str(n) == IF n < Len(Digits) THEN <<Digits[n + 1]>>
          ELSE str(n \div Len(Digits)) \o <<Digits[(n % Len(Digits)) + 1]>>

\* The value of a run of digits read left to right after acc.
RECURSIVE DigitsValue(_, _)
DigitsValue(text, acc) ==
    IF text = <<>> THEN acc
    ELSE DigitsValue(Tail(text), acc * Len(Digits) + DigitValue(Head(text)))

AllDigits(text) == text # <<>> /\ \A k \in 1..Len(text) : IsDigit(text[k])

\* int(text): nothing for a ValueError; a sign, then digits.
int(text) ==
    IF AllDigits(text) THEN Some(DigitsValue(text, 0))
    ELSE IF text # <<>> /\ Head(text) \in {"-", "+"} /\ AllDigits(Tail(text))
    THEN Some((IF Head(text) = "-" THEN -1 ELSE 1) * DigitsValue(Tail(text), 0))
    ELSE None

\* text.split("/"): cur is the segment being read.
RECURSIVE split(_, _)
split(text, cur) ==
    IF text = <<>> THEN <<cur>>
    ELSE IF Head(text) = "/" THEN <<cur>> \o split(Tail(text), <<>>)
    ELSE split(Tail(text), Append(cur, Head(text)))

\* f"{prefix}/{source_id}"
topic_text(source_id, prefix) == prefix \o <<"/">> \o str(source_id)

\* parse_source_id_from_topic: nothing stands for None.
parse_source_id_from_topic(topic) ==
    IF Len(split(topic, <<>>)) >= 3
    THEN int(split(topic, <<>>)[Len(split(topic, <<>>))])
    ELSE None

TopicPrefixes == SeqsUpTo({"a", "/"}, MaxPrefixLen)

RawTopics == SeqsUpTo({"a", "/", "7", "-"}, MaxTopicLen)

TopicInputs ==
    [kind : {"source"}, source_id : 0..MaxTopicId, prefix : TopicPrefixes, topic : {<<>>}]
    \cup [kind : {"topic"}, source_id : {0}, prefix : {<<>>}, topic : RawTopics]

InitTopic ==
    /\ w \in { InitialWorld(c, "processor") : c \in SpecConfigs }
    /\ last = NoLast
    /\ pub = <<>>
    /\ th = ThreadsIdle
    /\ \E i \in TopicInputs :
         sk = SinkIdle @@ [input |-> i, topic |-> <<>>, parsed |-> None]

\* topic_for_source, then parse_source_id_from_topic on what it returned.
TopicRoundTrip ==
    /\ sk.pc = "idle" /\ sk.input.kind = "source"
    /\ sk' = [sk EXCEPT
                !.pc = "called",
                !.topic = topic_text(sk.input.source_id, sk.input.prefix),
                !.parsed = parse_source_id_from_topic(
                               topic_text(sk.input.source_id, sk.input.prefix))]
    /\ UNCHANGED <<w, last, pub, th>>

\* parse_source_id_from_topic on a topic as it stands.
TopicParse ==
    /\ sk.pc = "idle" /\ sk.input.kind = "topic"
    /\ sk' = [sk EXCEPT !.pc = "called", !.topic = sk.input.topic,
                        !.parsed = parse_source_id_from_topic(sk.input.topic)]
    /\ UNCHANGED <<w, last, pub, th>>

NextTopic == TopicRoundTrip \/ TopicParse

SpecTopic == InitTopic /\ [][NextTopic]_vars

Segments(topic) == split(topic, <<>>)

\* The last segment is a number as int() reads one.
NumericLast(topic) == int(Segments(topic)[Len(Segments(topic))]) # None

\* C34: for every source id >= 0 and every prefix, the topic built is
\* prefix + "/" + source id and parsing it gives the source id back; a
\* topic of fewer than three segments, or whose last segment is no number,
\* parses to None.
C34_TopicRoundTrip ==
    sk.pc = "called" =>
        /\ sk.input.kind = "source" =>
              /\ sk.topic = sk.input.prefix \o <<"/">> \o str(sk.input.source_id)
              /\ sk.parsed = Some(sk.input.source_id)
        /\ (Len(Segments(sk.topic)) < 3 \/ ~NumericLast(sk.topic)) => sk.parsed = None

\* The same for the prefixes of two segments or more: those with a "/".
RoundTripWithSlash ==
    sk.pc = "called" =>
        /\ (sk.input.kind = "source" /\ Len(Segments(sk.input.prefix)) >= 2) =>
              /\ sk.topic = sk.input.prefix \o <<"/">> \o str(sk.input.source_id)
              /\ sk.parsed = Some(sk.input.source_id)
        /\ (Len(Segments(sk.topic)) < 3 \/ ~NumericLast(sk.topic)) => sk.parsed = None

\* C35: whenever an engine is running and is_paused is false, the sink
\* gate is open, so that after a pause and a successful restart or
\* reconfiguration the frames of the new engine are published.
C35_GateOpenWhenRunning ==
    (Streaming(w) /\ ~PausedFlag(w)) => w.sink.running

\* What a terminal status says about the engine manager.
StatusAgrees(x, status) ==
    CASE status = "paused" ->
             CurrentEngine(x) # None /\ PausedFlag(x) /\ ~x.sink.running
      [] status = "running" ->
             CurrentEngine(x) # None /\ ~PausedFlag(x) /\ x.sink.running
      [] status = "stopped" -> ~Streaming(x)
      [] OTHER -> TRUE

\* Every status x published for the message it has just handled agrees
\* with the state the handler left.
PublishedAgrees(x) ==
    \A k \in 1..Len(x.cp.statuses) : StatusAgrees(x, x.cp.statuses[k].status)

\* C36: when the pause, resume or stop handler publishes its terminal
\* status, the engine manager's state agrees with it: "paused" with an
\* engine, is_paused true and the gate closed; "running" with an engine,
\* is_paused false and the gate open; "stopped" with no engine running.
C36_TerminalStatusAgrees ==
    \A msg \in Messages :
        (Targeted(msg) /\ Lower(msg.command) \in {"pause", "resume", "stop"})
            => \A eng \in EngineOutcomesFor(msg) :
                   PublishedAgrees(_on_message(w, msg, eng).w)

ReconfigureCommands == {"change_model", "set_fps", "add_stream", "remove_stream"}

\* r is what handling a message did: if the ack was "completed", the
\* status published last for it is "running".
EndsRunning(r) ==
    r.outcome = "completed" =>
        /\ Len(r.w.cp.statuses) > 0
        /\ r.w.cp.statuses[Len(r.w.cp.statuses)].status = "running"

\* C37: after a change_model, set_fps, add_stream or remove_stream command
\* that was acknowledged "completed", the status published last on the
\* instance's status topic is "running", not "reconfiguring".
C37_CompletedEndsRunning ==
    \A msg \in Messages :
        (Targeted(msg) /\ Lower(msg.command) \in ReconfigureCommands)
            => \A eng \in EngineOutcomesFor(msg) : EndsRunning(_on_message(w, msg, eng))

\* The (uri, source id) pairs of a config, in order: the stream at index k
\* goes under source_id_mapping[k] when the mapping reaches that far, else
\* under k itself, which is how the sink names the frames of that stream.
Pairing(c) ==
    [k \in 1..Len(c.stream_uris) |->
        [uri |-> c.stream_uris[k],
         source_id |-> IF k <= Len(MappingList(c)) THEN MappingList(c)[k] ELSE k - 1]]

\* r, the outcome of add_stream(n) on x: if it returned, the pairs are
\* those of x followed by (build_stream_uri(n), n).
AddAppendsPair(r, x, n) ==
    ~Raised(r) =>
        Pairing(r.w.cfg) =
            Append(Pairing(x.cfg), [uri |-> build_stream_uri(x.cfg, n), source_id |-> n])

RECURSIVE WithoutSource(_, _)
WithoutSource(pairs, n) ==
    IF pairs = <<>> THEN <<>>
    ELSE IF Head(pairs).source_id = n THEN WithoutSource(Tail(pairs), n)
    ELSE <<Head(pairs)>> \o WithoutSource(Tail(pairs), n)

\* r, the outcome of remove_stream(n) on x: if it returned, one pair went,
\* the one of n, and the others are there in their order.
RemoveDropsPair(r, x, n) ==
    ~Raised(r) =>
        /\ Len(Pairing(r.w.cfg)) = Len(Pairing(x.cfg)) - 1
        /\ Pairing(r.w.cfg) = WithoutSource(Pairing(x.cfg), n)

\* C38: every stream mutation keeps the pairing of URIs with source ids:
\* add_stream(n) appends the pair (build_stream_uri(n), n), remove_stream(n)
\* removes the URI paired with n and nothing else, and the other pairs stay
\* in their order, from every config accepted at construction.
C38_PairingPreserved ==
    /\ \A n \in SourceIds : AddAppendsPair(add_stream(w, n), w, n)
    /\ \A n \in RemoveArgs : RemoveDropsPair(remove_stream(w, n), w, n)

\* stream_uris and source_id_mapping run in parallel, without a repeated id.
Parallel(c) ==
    /\ Len(MappingList(c)) = Len(c.stream_uris)
    /\ \A j, k \in 1..Len(MappingList(c)) :
          MappingList(c)[j] = MappingList(c)[k] => j = k

PairingPreservedWhenParallel == Parallel(w.cfg) => C38_PairingPreserved

\* ---------------------------------------------------------- SpecReporter
\* The metrics probe (watchdog), the MetricsReporter and its worker threads
\* across successful restarts. A probe is named by the number of the
\* engine it was created for; reporter k is the one created with engine k.
\*   th.wiring          "processor": StreamProcessor with its own handlers;
\*                      "handlers": CommandHandlers over
\*                      InferencePipelineManager, with the reporter they
\*                      were constructed with
\*   th.enable_watchdog, th.interval   the config
\*   th.watchdog        the owner's self.watchdog: a probe or None
\*   th.engine_probe    the probe the current engine was created with
\*   th.reporter        the reporter in use (its number) or None
\*   th.built_with[k]   the probe reporter k was constructed with
\*   th.worker[k]       the worker thread of reporter k: "none", "wait",
\*                      "sample" or "exited"
\*   th.stop[k]         _stop_event of reporter k is set
\*   th.xpc             "idle", or "joining": _handle_restart is in stop()
\*                      of the old reporter
\*   th.timed_out       a join(timeout=5) returned with the worker alive
\*   last               the report made last and the probe it read
Reporters == 0..MaxRestarts

NoReport == [outcome |-> "none", probe |-> None]

\* The probe the reporter in use reads: self.watchdog of the reporter, set
\* once in its constructor.
probe_of_construction(t) == t.built_with[The(t.reporter)]

\* The probe a reporter created in _handle_restart is given: self.watchdog
\* as it is then.
probe_for_new_reporter(t) == t.watchdog

InitReporter ==
    /\ w \in { InitialWorld(c, "processor") : c \in SpecConfigs }
    /\ last = NoReport
    /\ pub = <<>>
    /\ sk = SinkIdle
    /\ \E wiring \in Wirings, i \in {0, 10}, wd \in BOOLEAN :
         LET has == wd /\ (wiring = "handlers" \/ i > 0) IN
         th = ThreadsIdle @@
              [wiring |-> wiring, interval |-> i, enable_watchdog |-> wd,
               watchdog |-> IF wd THEN Some(0) ELSE None,
               engine_probe |-> IF wd THEN Some(0) ELSE None,
               reporter |-> IF has THEN Some(0) ELSE None,
               built_with |-> [k \in Reporters |-> IF k = 0 /\ has THEN Some(0) ELSE None],
               worker |-> [k \in Reporters |-> IF k = 0 /\ has /\ i > 0 THEN "wait" ELSE "none"],
               stop |-> [k \in Reporters |-> FALSE],
               xpc |-> "idle", timed_out |-> FALSE, samples |-> 0]

\* _handle_restart, steps 1 to 3: the engine is terminated, self.watchdog
\* dropped and, if enabled, created anew, and the new engine created with it.
NewProbe(t) ==
    [t EXCEPT !.watchdog = IF t.enable_watchdog THEN Some(t.restarts + 1) ELSE None,
              !.engine_probe = IF t.enable_watchdog THEN Some(t.restarts + 1) ELSE None]

\* _handle_restart, step 4 after stop(), and step 5: a new reporter with
\* self.watchdog, its start(), pipeline.start().
NewReporter(t) ==
    [t EXCEPT !.reporter = Some(t.restarts + 1),
              !.built_with[t.restarts + 1] = probe_for_new_reporter(t),
              !.worker[t.restarts + 1] = "wait",
              !.restarts = @ + 1,
              !.xpc = "idle"]

\* _handle_restart up to the join in stop() of the old reporter, or to its
\* end when there is nothing to join or no reporter to create.
ProcessorRestart ==
    /\ th.wiring = "processor" /\ th.xpc = "idle" /\ th.restarts < MaxRestarts
    /\ th' = IF ~(th.enable_watchdog /\ th.interval > 0)
             THEN [NewProbe(th) EXCEPT !.restarts = @ + 1]
             ELSE IF th.reporter # None /\ th.worker[The(th.reporter)] # "none"
             THEN [NewProbe(th) EXCEPT !.stop[The(th.reporter)] = TRUE, !.xpc = "joining"]
             ELSE NewReporter(NewProbe(th))
    /\ UNCHANGED <<w, last, pub, sk>>

\* join(timeout=5) returns: the old worker has ended, or five seconds went
\* by; then the rest of _handle_restart.
ProcessorRestartJoined ==
    /\ th.xpc = "joining"
    /\ th' = [NewReporter(th) EXCEPT
                !.timed_out = @ \/ th.worker[The(th.reporter)] # "exited"]
    /\ UNCHANGED <<w, last, pub, sk>>

\* restart_pipeline of the manager: the engine is terminated, self.watchdog
\* created anew or set to None, the engine created with it and started.
\* Nothing there refers to the reporter.
ManagerRestart ==
    /\ th.wiring = "handlers" /\ th.xpc = "idle" /\ th.restarts < MaxRestarts
    /\ th' = [NewProbe(th) EXCEPT !.restarts = @ + 1]
    /\ UNCHANGED <<w, last, pub, sk>>

\* The metrics command: get_full_report() of the reporter in use.
MetricsCommand ==
    /\ th.xpc = "idle"
    /\ th.reporter # None
    /\ th.wiring = "processor" => th.watchdog # None
    /\ last' = [outcome |-> "full_report", probe |-> probe_of_construction(th)]
    /\ UNCHANGED <<w, pub, sk, th>>

\* A worker's wait times out; it reads its reporter's probe; it is back
\* in the wait.
ReporterWorkerTimeout ==
    /\ \E k \in Reporters :
         /\ th.worker[k] = "wait" /\ ~th.stop[k] /\ th.samples < MaxSamples
         /\ th' = [th EXCEPT !.worker[k] = "sample", !.samples = @ + 1]
    /\ UNCHANGED <<w, last, pub, sk>>

ReporterWorkerSample ==
    /\ \E k \in Reporters :
         /\ th.worker[k] = "sample"
         /\ th' = [th EXCEPT !.worker[k] = _reporting_loop_body_done("ok")]
         /\ last' = [outcome |-> "periodic", probe |-> th.built_with[k]]
    /\ UNCHANGED <<w, pub, sk>>

\* A worker's wait returns with the event set: the thread ends.
ReporterWorkerStopped ==
    /\ \E k \in Reporters :
         /\ th.worker[k] = "wait" /\ th.stop[k]
         /\ th' = [th EXCEPT !.worker[k] = "exited"]
    /\ UNCHANGED <<w, last, pub, sk>>

NextReporter ==
    \/ ProcessorRestart \/ ProcessorRestartJoined \/ ManagerRestart
    \/ MetricsCommand
    \/ ReporterWorkerTimeout \/ ReporterWorkerSample \/ ReporterWorkerStopped

SpecReporter == InitReporter /\ [][NextReporter]_vars

LiveWorkers == {k \in Reporters : th.worker[k] \in {"wait", "sample"}}

AfterRestart == th.restarts > 0 /\ th.xpc = "idle" /\ th.enable_watchdog

\* C39: after every successful restart with the watchdog enabled, the
\* reporter used for the periodic reports and for the metrics command reads
\* the probe of the current engine, never that of a terminated one, and at
\* most one metrics worker is running.
C39_ReporterOnCurrentProbe ==
    (AfterRestart /\ th.reporter # None) =>
        /\ probe_of_construction(th) = th.engine_probe
        /\ Cardinality(LiveWorkers) <= 1

\* The first half for StreamProcessor's own restart.
ProcessorReporterOnCurrentProbe ==
    (AfterRestart /\ th.reporter # None /\ th.wiring = "processor") =>
        probe_of_construction(th) = th.engine_probe

\* The second half when no join timed out.
OneWorkerUnlessTimedOut ==
    (AfterRestart /\ ~th.timed_out) => Cardinality(LiveWorkers) <= 1
====
